---- MODULE Spec2Model ----
(***************************************************************************)
(* Model of the Gemini question-answering front ends: the command-line     *)
(* program (LLM_QA_CLI.py) and the Flask web application (app.py).         *)
(* A Python string is the sequence of its Unicode code points (integers    *)
(* 0..1114111); the text of a literal is given in the comment next to it.  *)
(* The character tables are those of the Unicode database of Python 3.11.  *)
(* JSON values are tagged records.                                         *)
(***************************************************************************)
EXTENDS Integers, Sequences, FiniteSets, Bags, TLC

VARIABLES
    entry,      \* which program runs: "cli" or "web"
    env_key,    \* GEMINI_API_KEY in the environment of the process at start-up
    dotenv,     \* GEMINI_API_KEY in the .env file that load_dotenv() reads
    qa_system,  \* TRUE when the LLMQuestionAnswering object exists, FALSE for None
    pc,         \* cli: "prompt" | "done" | "exited"; web: "serving"; "fn" in the function specs
    req,        \* the last request read: an input line or a POST /ask body
    net,        \* what the remote service did with the call of the last request
    res,        \* what the last handler / loop iteration produced
    pending,    \* web: the POST /ask requests waiting in requests.post
    arg,        \* function specifications: the argument of the last application
    ret,        \* function specifications: its result
    passes      \* function specifications: how many times the function was applied

vars == <<entry, env_key, dotenv, qa_system, pc, req, net, res, pending, arg, ret, passes>>

(***************************************************************************)
(* Bounds                                                                  *)
(***************************************************************************)
MaxLen == 4     \* longest question given to preprocess_question alone
MaxLineLen == 1 \* longest free-form line / question given to the programs
MaxInFlight == 2 \* POST /ask requests waiting for the remote service at once
MaxPasses == 2  \* applications of preprocess_question in a row

(***************************************************************************)
(* Characters and str methods                                              *)
(***************************************************************************)
\* the characters for which str.isspace is true; str.strip, str.split and
\* the regular expression class \s use the same set
SpaceChars ==
    {9, 10, 11, 12, 13, 28, 29, 30, 31, 32, 133, 160, 5760} \cup (8192..8202)
        \cup {8232, 8233, 8239, 8287, 12288}

IsSpace(c) == c \in SpaceChars

\* the index of the row of table T whose range first..last holds c, 0 when
\* none does; the rows are in increasing order
RECURSIVE Find(_, _, _, _)
Find(T, c, lo, hi) ==
    IF lo > hi THEN 0
    ELSE IF c < T[(lo + hi) \div 2][1] THEN Find(T, c, lo, ((lo + hi) \div 2) - 1)
    ELSE IF c > T[(lo + hi) \div 2][2] THEN Find(T, c, ((lo + hi) \div 2) + 1, hi)
    ELSE (lo + hi) \div 2

InRanges(c, T) == Find(T, c, 1, Len(T)) # 0

\* the ranges of code points the class \w of a str pattern matches
WordRanges ==
    << <<48, 57>>, <<65, 90>>, <<95, 95>>, <<97, 122>>, <<170, 170>>,
       <<178, 179>>, <<181, 181>>, <<185, 186>>, <<188, 190>>, <<192, 214>>,
       <<216, 246>>, <<248, 705>>, <<710, 721>>, <<736, 740>>, <<748, 748>>,
       <<750, 750>>, <<880, 884>>, <<886, 887>>, <<890, 893>>, <<895, 895>>,
       <<902, 902>>, <<904, 906>>, <<908, 908>>, <<910, 929>>, <<931, 1013>>,
       <<1015, 1153>>, <<1162, 1327>>, <<1329, 1366>>, <<1369, 1369>>,
       <<1376, 1416>>, <<1488, 1514>>, <<1519, 1522>>, <<1568, 1610>>,
       <<1632, 1641>>, <<1646, 1647>>, <<1649, 1747>>, <<1749, 1749>>,
       <<1765, 1766>>, <<1774, 1788>>, <<1791, 1791>>, <<1808, 1808>>,
       <<1810, 1839>>, <<1869, 1957>>, <<1969, 1969>>, <<1984, 2026>>,
       <<2036, 2037>>, <<2042, 2042>>, <<2048, 2069>>, <<2074, 2074>>,
       <<2084, 2084>>, <<2088, 2088>>, <<2112, 2136>>, <<2144, 2154>>,
       <<2160, 2183>>, <<2185, 2190>>, <<2208, 2249>>, <<2308, 2361>>,
       <<2365, 2365>>, <<2384, 2384>>, <<2392, 2401>>, <<2406, 2415>>,
       <<2417, 2432>>, <<2437, 2444>>, <<2447, 2448>>, <<2451, 2472>>,
       <<2474, 2480>>, <<2482, 2482>>, <<2486, 2489>>, <<2493, 2493>>,
       <<2510, 2510>>, <<2524, 2525>>, <<2527, 2529>>, <<2534, 2545>>,
       <<2548, 2553>>, <<2556, 2556>>, <<2565, 2570>>, <<2575, 2576>>,
       <<2579, 2600>>, <<2602, 2608>>, <<2610, 2611>>, <<2613, 2614>>,
       <<2616, 2617>>, <<2649, 2652>>, <<2654, 2654>>, <<2662, 2671>>,
       <<2674, 2676>>, <<2693, 2701>>, <<2703, 2705>>, <<2707, 2728>>,
       <<2730, 2736>>, <<2738, 2739>>, <<2741, 2745>>, <<2749, 2749>>,
       <<2768, 2768>>, <<2784, 2785>>, <<2790, 2799>>, <<2809, 2809>>,
       <<2821, 2828>>, <<2831, 2832>>, <<2835, 2856>>, <<2858, 2864>>,
       <<2866, 2867>>, <<2869, 2873>>, <<2877, 2877>>, <<2908, 2909>>,
       <<2911, 2913>>, <<2918, 2927>>, <<2929, 2935>>, <<2947, 2947>>,
       <<2949, 2954>>, <<2958, 2960>>, <<2962, 2965>>, <<2969, 2970>>,
       <<2972, 2972>>, <<2974, 2975>>, <<2979, 2980>>, <<2984, 2986>>,
       <<2990, 3001>>, <<3024, 3024>>, <<3046, 3058>>, <<3077, 3084>>,
       <<3086, 3088>>, <<3090, 3112>>, <<3114, 3129>>, <<3133, 3133>>,
       <<3160, 3162>>, <<3165, 3165>>, <<3168, 3169>>, <<3174, 3183>>,
       <<3192, 3198>>, <<3200, 3200>>, <<3205, 3212>>, <<3214, 3216>>,
       <<3218, 3240>>, <<3242, 3251>>, <<3253, 3257>>, <<3261, 3261>>,
       <<3293, 3294>>, <<3296, 3297>>, <<3302, 3311>>, <<3313, 3314>>,
       <<3332, 3340>>, <<3342, 3344>>, <<3346, 3386>>, <<3389, 3389>>,
       <<3406, 3406>>, <<3412, 3414>>, <<3416, 3425>>, <<3430, 3448>>,
       <<3450, 3455>>, <<3461, 3478>>, <<3482, 3505>>, <<3507, 3515>>,
       <<3517, 3517>>, <<3520, 3526>>, <<3558, 3567>>, <<3585, 3632>>,
       <<3634, 3635>>, <<3648, 3654>>, <<3664, 3673>>, <<3713, 3714>>,
       <<3716, 3716>>, <<3718, 3722>>, <<3724, 3747>>, <<3749, 3749>>,
       <<3751, 3760>>, <<3762, 3763>>, <<3773, 3773>>, <<3776, 3780>>,
       <<3782, 3782>>, <<3792, 3801>>, <<3804, 3807>>, <<3840, 3840>>,
       <<3872, 3891>>, <<3904, 3911>>, <<3913, 3948>>, <<3976, 3980>>,
       <<4096, 4138>>, <<4159, 4169>>, <<4176, 4181>>, <<4186, 4189>>,
       <<4193, 4193>>, <<4197, 4198>>, <<4206, 4208>>, <<4213, 4225>>,
       <<4238, 4238>>, <<4240, 4249>>, <<4256, 4293>>, <<4295, 4295>>,
       <<4301, 4301>>, <<4304, 4346>>, <<4348, 4680>>, <<4682, 4685>>,
       <<4688, 4694>>, <<4696, 4696>>, <<4698, 4701>>, <<4704, 4744>>,
       <<4746, 4749>>, <<4752, 4784>>, <<4786, 4789>>, <<4792, 4798>>,
       <<4800, 4800>>, <<4802, 4805>>, <<4808, 4822>>, <<4824, 4880>>,
       <<4882, 4885>>, <<4888, 4954>>, <<4969, 4988>>, <<4992, 5007>>,
       <<5024, 5109>>, <<5112, 5117>>, <<5121, 5740>>, <<5743, 5759>>,
       <<5761, 5786>>, <<5792, 5866>>, <<5870, 5880>>, <<5888, 5905>>,
       <<5919, 5937>>, <<5952, 5969>>, <<5984, 5996>>, <<5998, 6000>>,
       <<6016, 6067>>, <<6103, 6103>>, <<6108, 6108>>, <<6112, 6121>>,
       <<6128, 6137>>, <<6160, 6169>>, <<6176, 6264>>, <<6272, 6276>>,
       <<6279, 6312>>, <<6314, 6314>>, <<6320, 6389>>, <<6400, 6430>>,
       <<6470, 6509>>, <<6512, 6516>>, <<6528, 6571>>, <<6576, 6601>>,
       <<6608, 6618>>, <<6656, 6678>>, <<6688, 6740>>, <<6784, 6793>>,
       <<6800, 6809>>, <<6823, 6823>>, <<6917, 6963>>, <<6981, 6988>>,
       <<6992, 7001>>, <<7043, 7072>>, <<7086, 7141>>, <<7168, 7203>>,
       <<7232, 7241>>, <<7245, 7293>>, <<7296, 7304>>, <<7312, 7354>>,
       <<7357, 7359>>, <<7401, 7404>>, <<7406, 7411>>, <<7413, 7414>>,
       <<7418, 7418>>, <<7424, 7615>>, <<7680, 7957>>, <<7960, 7965>>,
       <<7968, 8005>>, <<8008, 8013>>, <<8016, 8023>>, <<8025, 8025>>,
       <<8027, 8027>>, <<8029, 8029>>, <<8031, 8061>>, <<8064, 8116>>,
       <<8118, 8124>>, <<8126, 8126>>, <<8130, 8132>>, <<8134, 8140>>,
       <<8144, 8147>>, <<8150, 8155>>, <<8160, 8172>>, <<8178, 8180>>,
       <<8182, 8188>>, <<8304, 8305>>, <<8308, 8313>>, <<8319, 8329>>,
       <<8336, 8348>>, <<8450, 8450>>, <<8455, 8455>>, <<8458, 8467>>,
       <<8469, 8469>>, <<8473, 8477>>, <<8484, 8484>>, <<8486, 8486>>,
       <<8488, 8488>>, <<8490, 8493>>, <<8495, 8505>>, <<8508, 8511>>,
       <<8517, 8521>>, <<8526, 8526>>, <<8528, 8585>>, <<9312, 9371>>,
       <<9450, 9471>>, <<10102, 10131>>, <<11264, 11492>>, <<11499, 11502>>,
       <<11506, 11507>>, <<11517, 11517>>, <<11520, 11557>>, <<11559, 11559>>,
       <<11565, 11565>>, <<11568, 11623>>, <<11631, 11631>>, <<11648, 11670>>,
       <<11680, 11686>>, <<11688, 11694>>, <<11696, 11702>>, <<11704, 11710>>,
       <<11712, 11718>>, <<11720, 11726>>, <<11728, 11734>>, <<11736, 11742>>,
       <<11823, 11823>>, <<12293, 12295>>, <<12321, 12329>>, <<12337, 12341>>,
       <<12344, 12348>>, <<12353, 12438>>, <<12445, 12447>>, <<12449, 12538>>,
       <<12540, 12543>>, <<12549, 12591>>, <<12593, 12686>>, <<12690, 12693>>,
       <<12704, 12735>>, <<12784, 12799>>, <<12832, 12841>>, <<12872, 12879>>,
       <<12881, 12895>>, <<12928, 12937>>, <<12977, 12991>>, <<13312, 19903>>,
       <<19968, 42124>>, <<42192, 42237>>, <<42240, 42508>>, <<42512, 42539>>,
       <<42560, 42606>>, <<42623, 42653>>, <<42656, 42735>>, <<42775, 42783>>,
       <<42786, 42888>>, <<42891, 42954>>, <<42960, 42961>>, <<42963, 42963>>,
       <<42965, 42969>>, <<42994, 43009>>, <<43011, 43013>>, <<43015, 43018>>,
       <<43020, 43042>>, <<43056, 43061>>, <<43072, 43123>>, <<43138, 43187>>,
       <<43216, 43225>>, <<43250, 43255>>, <<43259, 43259>>, <<43261, 43262>>,
       <<43264, 43301>>, <<43312, 43334>>, <<43360, 43388>>, <<43396, 43442>>,
       <<43471, 43481>>, <<43488, 43492>>, <<43494, 43518>>, <<43520, 43560>>,
       <<43584, 43586>>, <<43588, 43595>>, <<43600, 43609>>, <<43616, 43638>>,
       <<43642, 43642>>, <<43646, 43695>>, <<43697, 43697>>, <<43701, 43702>>,
       <<43705, 43709>>, <<43712, 43712>>, <<43714, 43714>>, <<43739, 43741>>,
       <<43744, 43754>>, <<43762, 43764>>, <<43777, 43782>>, <<43785, 43790>>,
       <<43793, 43798>>, <<43808, 43814>>, <<43816, 43822>>, <<43824, 43866>>,
       <<43868, 43881>>, <<43888, 44002>>, <<44016, 44025>>, <<44032, 55203>>,
       <<55216, 55238>>, <<55243, 55291>>, <<63744, 64109>>, <<64112, 64217>>,
       <<64256, 64262>>, <<64275, 64279>>, <<64285, 64285>>, <<64287, 64296>>,
       <<64298, 64310>>, <<64312, 64316>>, <<64318, 64318>>, <<64320, 64321>>,
       <<64323, 64324>>, <<64326, 64433>>, <<64467, 64829>>, <<64848, 64911>>,
       <<64914, 64967>>, <<65008, 65019>>, <<65136, 65140>>, <<65142, 65276>>,
       <<65296, 65305>>, <<65313, 65338>>, <<65345, 65370>>, <<65382, 65470>>,
       <<65474, 65479>>, <<65482, 65487>>, <<65490, 65495>>, <<65498, 65500>>,
       <<65536, 65547>>, <<65549, 65574>>, <<65576, 65594>>, <<65596, 65597>>,
       <<65599, 65613>>, <<65616, 65629>>, <<65664, 65786>>, <<65799, 65843>>,
       <<65856, 65912>>, <<65930, 65931>>, <<66176, 66204>>, <<66208, 66256>>,
       <<66273, 66299>>, <<66304, 66339>>, <<66349, 66378>>, <<66384, 66421>>,
       <<66432, 66461>>, <<66464, 66499>>, <<66504, 66511>>, <<66513, 66517>>,
       <<66560, 66717>>, <<66720, 66729>>, <<66736, 66771>>, <<66776, 66811>>,
       <<66816, 66855>>, <<66864, 66915>>, <<66928, 66938>>, <<66940, 66954>>,
       <<66956, 66962>>, <<66964, 66965>>, <<66967, 66977>>, <<66979, 66993>>,
       <<66995, 67001>>, <<67003, 67004>>, <<67072, 67382>>, <<67392, 67413>>,
       <<67424, 67431>>, <<67456, 67461>>, <<67463, 67504>>, <<67506, 67514>>,
       <<67584, 67589>>, <<67592, 67592>>, <<67594, 67637>>, <<67639, 67640>>,
       <<67644, 67644>>, <<67647, 67669>>, <<67672, 67702>>, <<67705, 67742>>,
       <<67751, 67759>>, <<67808, 67826>>, <<67828, 67829>>, <<67835, 67867>>,
       <<67872, 67897>>, <<67968, 68023>>, <<68028, 68047>>, <<68050, 68096>>,
       <<68112, 68115>>, <<68117, 68119>>, <<68121, 68149>>, <<68160, 68168>>,
       <<68192, 68222>>, <<68224, 68255>>, <<68288, 68295>>, <<68297, 68324>>,
       <<68331, 68335>>, <<68352, 68405>>, <<68416, 68437>>, <<68440, 68466>>,
       <<68472, 68497>>, <<68521, 68527>>, <<68608, 68680>>, <<68736, 68786>>,
       <<68800, 68850>>, <<68858, 68899>>, <<68912, 68921>>, <<69216, 69246>>,
       <<69248, 69289>>, <<69296, 69297>>, <<69376, 69415>>, <<69424, 69445>>,
       <<69457, 69460>>, <<69488, 69505>>, <<69552, 69579>>, <<69600, 69622>>,
       <<69635, 69687>>, <<69714, 69743>>, <<69745, 69746>>, <<69749, 69749>>,
       <<69763, 69807>>, <<69840, 69864>>, <<69872, 69881>>, <<69891, 69926>>,
       <<69942, 69951>>, <<69956, 69956>>, <<69959, 69959>>, <<69968, 70002>>,
       <<70006, 70006>>, <<70019, 70066>>, <<70081, 70084>>, <<70096, 70106>>,
       <<70108, 70108>>, <<70113, 70132>>, <<70144, 70161>>, <<70163, 70187>>,
       <<70272, 70278>>, <<70280, 70280>>, <<70282, 70285>>, <<70287, 70301>>,
       <<70303, 70312>>, <<70320, 70366>>, <<70384, 70393>>, <<70405, 70412>>,
       <<70415, 70416>>, <<70419, 70440>>, <<70442, 70448>>, <<70450, 70451>>,
       <<70453, 70457>>, <<70461, 70461>>, <<70480, 70480>>, <<70493, 70497>>,
       <<70656, 70708>>, <<70727, 70730>>, <<70736, 70745>>, <<70751, 70753>>,
       <<70784, 70831>>, <<70852, 70853>>, <<70855, 70855>>, <<70864, 70873>>,
       <<71040, 71086>>, <<71128, 71131>>, <<71168, 71215>>, <<71236, 71236>>,
       <<71248, 71257>>, <<71296, 71338>>, <<71352, 71352>>, <<71360, 71369>>,
       <<71424, 71450>>, <<71472, 71483>>, <<71488, 71494>>, <<71680, 71723>>,
       <<71840, 71922>>, <<71935, 71942>>, <<71945, 71945>>, <<71948, 71955>>,
       <<71957, 71958>>, <<71960, 71983>>, <<71999, 71999>>, <<72001, 72001>>,
       <<72016, 72025>>, <<72096, 72103>>, <<72106, 72144>>, <<72161, 72161>>,
       <<72163, 72163>>, <<72192, 72192>>, <<72203, 72242>>, <<72250, 72250>>,
       <<72272, 72272>>, <<72284, 72329>>, <<72349, 72349>>, <<72368, 72440>>,
       <<72704, 72712>>, <<72714, 72750>>, <<72768, 72768>>, <<72784, 72812>>,
       <<72818, 72847>>, <<72960, 72966>>, <<72968, 72969>>, <<72971, 73008>>,
       <<73030, 73030>>, <<73040, 73049>>, <<73056, 73061>>, <<73063, 73064>>,
       <<73066, 73097>>, <<73112, 73112>>, <<73120, 73129>>, <<73440, 73458>>,
       <<73648, 73648>>, <<73664, 73684>>, <<73728, 74649>>, <<74752, 74862>>,
       <<74880, 75075>>, <<77712, 77808>>, <<77824, 78894>>, <<82944, 83526>>,
       <<92160, 92728>>, <<92736, 92766>>, <<92768, 92777>>, <<92784, 92862>>,
       <<92864, 92873>>, <<92880, 92909>>, <<92928, 92975>>, <<92992, 92995>>,
       <<93008, 93017>>, <<93019, 93025>>, <<93027, 93047>>, <<93053, 93071>>,
       <<93760, 93846>>, <<93952, 94026>>, <<94032, 94032>>, <<94099, 94111>>,
       <<94176, 94177>>, <<94179, 94179>>, <<94208, 100343>>,
       <<100352, 101589>>, <<101632, 101640>>, <<110576, 110579>>,
       <<110581, 110587>>, <<110589, 110590>>, <<110592, 110882>>,
       <<110928, 110930>>, <<110948, 110951>>, <<110960, 111355>>,
       <<113664, 113770>>, <<113776, 113788>>, <<113792, 113800>>,
       <<113808, 113817>>, <<119520, 119539>>, <<119648, 119672>>,
       <<119808, 119892>>, <<119894, 119964>>, <<119966, 119967>>,
       <<119970, 119970>>, <<119973, 119974>>, <<119977, 119980>>,
       <<119982, 119993>>, <<119995, 119995>>, <<119997, 120003>>,
       <<120005, 120069>>, <<120071, 120074>>, <<120077, 120084>>,
       <<120086, 120092>>, <<120094, 120121>>, <<120123, 120126>>,
       <<120128, 120132>>, <<120134, 120134>>, <<120138, 120144>>,
       <<120146, 120485>>, <<120488, 120512>>, <<120514, 120538>>,
       <<120540, 120570>>, <<120572, 120596>>, <<120598, 120628>>,
       <<120630, 120654>>, <<120656, 120686>>, <<120688, 120712>>,
       <<120714, 120744>>, <<120746, 120770>>, <<120772, 120779>>,
       <<120782, 120831>>, <<122624, 122654>>, <<123136, 123180>>,
       <<123191, 123197>>, <<123200, 123209>>, <<123214, 123214>>,
       <<123536, 123565>>, <<123584, 123627>>, <<123632, 123641>>,
       <<124896, 124902>>, <<124904, 124907>>, <<124909, 124910>>,
       <<124912, 124926>>, <<124928, 125124>>, <<125127, 125135>>,
       <<125184, 125251>>, <<125259, 125259>>, <<125264, 125273>>,
       <<126065, 126123>>, <<126125, 126127>>, <<126129, 126132>>,
       <<126209, 126253>>, <<126255, 126269>>, <<126464, 126467>>,
       <<126469, 126495>>, <<126497, 126498>>, <<126500, 126500>>,
       <<126503, 126503>>, <<126505, 126514>>, <<126516, 126519>>,
       <<126521, 126521>>, <<126523, 126523>>, <<126530, 126530>>,
       <<126535, 126535>>, <<126537, 126537>>, <<126539, 126539>>,
       <<126541, 126543>>, <<126545, 126546>>, <<126548, 126548>>,
       <<126551, 126551>>, <<126553, 126553>>, <<126555, 126555>>,
       <<126557, 126557>>, <<126559, 126559>>, <<126561, 126562>>,
       <<126564, 126564>>, <<126567, 126570>>, <<126572, 126578>>,
       <<126580, 126583>>, <<126585, 126588>>, <<126590, 126590>>,
       <<126592, 126601>>, <<126603, 126619>>, <<126625, 126627>>,
       <<126629, 126633>>, <<126635, 126651>>, <<127232, 127244>>,
       <<130032, 130041>>, <<131072, 173791>>, <<173824, 177976>>,
       <<177984, 178205>>, <<178208, 183969>>, <<183984, 191456>>,
       <<194560, 195101>>, <<196608, 201546>> >>

\* the regular expression class \w of a str pattern
IsWord(c) == InRanges(c, WordRanges)

\* the code points str.lower maps to one other code point, as rows
\* <<first, last, step, offset>>: first, first + step, ... last each become
\* the code point plus offset
LowerRuns ==
    << <<65, 90, 1, 32>>, <<192, 214, 1, 32>>, <<216, 222, 1, 32>>,
       <<256, 302, 2, 1>>, <<306, 310, 2, 1>>, <<313, 327, 2, 1>>,
       <<330, 374, 2, 1>>, <<376, 376, 1, -121>>, <<377, 381, 2, 1>>,
       <<385, 385, 1, 210>>, <<386, 388, 2, 1>>, <<390, 390, 1, 206>>,
       <<391, 391, 1, 1>>, <<393, 394, 1, 205>>, <<395, 395, 1, 1>>,
       <<398, 398, 1, 79>>, <<399, 399, 1, 202>>, <<400, 400, 1, 203>>,
       <<401, 401, 1, 1>>, <<403, 403, 1, 205>>, <<404, 404, 1, 207>>,
       <<406, 406, 1, 211>>, <<407, 407, 1, 209>>, <<408, 408, 1, 1>>,
       <<412, 412, 1, 211>>, <<413, 413, 1, 213>>, <<415, 415, 1, 214>>,
       <<416, 420, 2, 1>>, <<422, 422, 1, 218>>, <<423, 423, 1, 1>>,
       <<425, 425, 1, 218>>, <<428, 428, 1, 1>>, <<430, 430, 1, 218>>,
       <<431, 431, 1, 1>>, <<433, 434, 1, 217>>, <<435, 437, 2, 1>>,
       <<439, 439, 1, 219>>, <<440, 440, 1, 1>>, <<444, 444, 1, 1>>,
       <<452, 452, 1, 2>>, <<453, 453, 1, 1>>, <<455, 455, 1, 2>>,
       <<456, 456, 1, 1>>, <<458, 458, 1, 2>>, <<459, 475, 2, 1>>,
       <<478, 494, 2, 1>>, <<497, 497, 1, 2>>, <<498, 500, 2, 1>>,
       <<502, 502, 1, -97>>, <<503, 503, 1, -56>>, <<504, 542, 2, 1>>,
       <<544, 544, 1, -130>>, <<546, 562, 2, 1>>, <<570, 570, 1, 10795>>,
       <<571, 571, 1, 1>>, <<573, 573, 1, -163>>, <<574, 574, 1, 10792>>,
       <<577, 577, 1, 1>>, <<579, 579, 1, -195>>, <<580, 580, 1, 69>>,
       <<581, 581, 1, 71>>, <<582, 590, 2, 1>>, <<880, 882, 2, 1>>,
       <<886, 886, 1, 1>>, <<895, 895, 1, 116>>, <<902, 902, 1, 38>>,
       <<904, 906, 1, 37>>, <<908, 908, 1, 64>>, <<910, 911, 1, 63>>,
       <<913, 929, 1, 32>>, <<931, 939, 1, 32>>, <<975, 975, 1, 8>>,
       <<984, 1006, 2, 1>>, <<1012, 1012, 1, -60>>, <<1015, 1015, 1, 1>>,
       <<1017, 1017, 1, -7>>, <<1018, 1018, 1, 1>>, <<1021, 1023, 1, -130>>,
       <<1024, 1039, 1, 80>>, <<1040, 1071, 1, 32>>, <<1120, 1152, 2, 1>>,
       <<1162, 1214, 2, 1>>, <<1216, 1216, 1, 15>>, <<1217, 1229, 2, 1>>,
       <<1232, 1326, 2, 1>>, <<1329, 1366, 1, 48>>, <<4256, 4293, 1, 7264>>,
       <<4295, 4295, 1, 7264>>, <<4301, 4301, 1, 7264>>,
       <<5024, 5103, 1, 38864>>, <<5104, 5109, 1, 8>>, <<7312, 7354, 1, -3008>>,
       <<7357, 7359, 1, -3008>>, <<7680, 7828, 2, 1>>, <<7838, 7838, 1, -7615>>,
       <<7840, 7934, 2, 1>>, <<7944, 7951, 1, -8>>, <<7960, 7965, 1, -8>>,
       <<7976, 7983, 1, -8>>, <<7992, 7999, 1, -8>>, <<8008, 8013, 1, -8>>,
       <<8025, 8031, 2, -8>>, <<8040, 8047, 1, -8>>, <<8072, 8079, 1, -8>>,
       <<8088, 8095, 1, -8>>, <<8104, 8111, 1, -8>>, <<8120, 8121, 1, -8>>,
       <<8122, 8123, 1, -74>>, <<8124, 8124, 1, -9>>, <<8136, 8139, 1, -86>>,
       <<8140, 8140, 1, -9>>, <<8152, 8153, 1, -8>>, <<8154, 8155, 1, -100>>,
       <<8168, 8169, 1, -8>>, <<8170, 8171, 1, -112>>, <<8172, 8172, 1, -7>>,
       <<8184, 8185, 1, -128>>, <<8186, 8187, 1, -126>>, <<8188, 8188, 1, -9>>,
       <<8486, 8486, 1, -7517>>, <<8490, 8490, 1, -8383>>,
       <<8491, 8491, 1, -8262>>, <<8498, 8498, 1, 28>>, <<8544, 8559, 1, 16>>,
       <<8579, 8579, 1, 1>>, <<9398, 9423, 1, 26>>, <<11264, 11311, 1, 48>>,
       <<11360, 11360, 1, 1>>, <<11362, 11362, 1, -10743>>,
       <<11363, 11363, 1, -3814>>, <<11364, 11364, 1, -10727>>,
       <<11367, 11371, 2, 1>>, <<11373, 11373, 1, -10780>>,
       <<11374, 11374, 1, -10749>>, <<11375, 11375, 1, -10783>>,
       <<11376, 11376, 1, -10782>>, <<11378, 11378, 1, 1>>,
       <<11381, 11381, 1, 1>>, <<11390, 11391, 1, -10815>>,
       <<11392, 11490, 2, 1>>, <<11499, 11501, 2, 1>>, <<11506, 11506, 1, 1>>,
       <<42560, 42604, 2, 1>>, <<42624, 42650, 2, 1>>, <<42786, 42798, 2, 1>>,
       <<42802, 42862, 2, 1>>, <<42873, 42875, 2, 1>>,
       <<42877, 42877, 1, -35332>>, <<42878, 42886, 2, 1>>,
       <<42891, 42891, 1, 1>>, <<42893, 42893, 1, -42280>>,
       <<42896, 42898, 2, 1>>, <<42902, 42920, 2, 1>>,
       <<42922, 42922, 1, -42308>>, <<42923, 42923, 1, -42319>>,
       <<42924, 42924, 1, -42315>>, <<42925, 42925, 1, -42305>>,
       <<42926, 42926, 1, -42308>>, <<42928, 42928, 1, -42258>>,
       <<42929, 42929, 1, -42282>>, <<42930, 42930, 1, -42261>>,
       <<42931, 42931, 1, 928>>, <<42932, 42946, 2, 1>>,
       <<42948, 42948, 1, -48>>, <<42949, 42949, 1, -42307>>,
       <<42950, 42950, 1, -35384>>, <<42951, 42953, 2, 1>>,
       <<42960, 42960, 1, 1>>, <<42966, 42968, 2, 1>>, <<42997, 42997, 1, 1>>,
       <<65313, 65338, 1, 32>>, <<66560, 66599, 1, 40>>,
       <<66736, 66771, 1, 40>>, <<66928, 66938, 1, 39>>,
       <<66940, 66954, 1, 39>>, <<66956, 66962, 1, 39>>,
       <<66964, 66965, 1, 39>>, <<68736, 68786, 1, 64>>,
       <<71840, 71871, 1, 32>>, <<93760, 93791, 1, 32>>,
       <<125184, 125217, 1, 34>> >>

\* str.lower of one character out of context; capital I with dot above
\* (304) becomes two characters, i and COMBINING DOT ABOVE
LowerChar(c) ==
    IF c = 304 THEN <<105, 775>>
    ELSE IF Find(LowerRuns, c, 1, Len(LowerRuns)) = 0 THEN <<c>>
    ELSE IF (c - LowerRuns[Find(LowerRuns, c, 1, Len(LowerRuns))][1])
                % LowerRuns[Find(LowerRuns, c, 1, Len(LowerRuns))][3] # 0
    THEN <<c>>
    ELSE <<c + LowerRuns[Find(LowerRuns, c, 1, Len(LowerRuns))][4]>>

\* the code points with the property Cased
CasedRanges ==
    << <<65, 90>>, <<97, 122>>, <<170, 170>>, <<181, 181>>, <<186, 186>>,
       <<192, 214>>, <<216, 246>>, <<248, 442>>, <<444, 447>>, <<452, 659>>,
       <<661, 696>>, <<704, 705>>, <<736, 740>>, <<837, 837>>, <<880, 883>>,
       <<886, 887>>, <<890, 893>>, <<895, 895>>, <<902, 902>>, <<904, 906>>,
       <<908, 908>>, <<910, 929>>, <<931, 1013>>, <<1015, 1153>>,
       <<1162, 1327>>, <<1329, 1366>>, <<1376, 1416>>, <<4256, 4293>>,
       <<4295, 4295>>, <<4301, 4301>>, <<4304, 4346>>, <<4349, 4351>>,
       <<5024, 5109>>, <<5112, 5117>>, <<7296, 7304>>, <<7312, 7354>>,
       <<7357, 7359>>, <<7424, 7615>>, <<7680, 7957>>, <<7960, 7965>>,
       <<7968, 8005>>, <<8008, 8013>>, <<8016, 8023>>, <<8025, 8025>>,
       <<8027, 8027>>, <<8029, 8029>>, <<8031, 8061>>, <<8064, 8116>>,
       <<8118, 8124>>, <<8126, 8126>>, <<8130, 8132>>, <<8134, 8140>>,
       <<8144, 8147>>, <<8150, 8155>>, <<8160, 8172>>, <<8178, 8180>>,
       <<8182, 8188>>, <<8305, 8305>>, <<8319, 8319>>, <<8336, 8348>>,
       <<8450, 8450>>, <<8455, 8455>>, <<8458, 8467>>, <<8469, 8469>>,
       <<8473, 8477>>, <<8484, 8484>>, <<8486, 8486>>, <<8488, 8488>>,
       <<8490, 8493>>, <<8495, 8500>>, <<8505, 8505>>, <<8508, 8511>>,
       <<8517, 8521>>, <<8526, 8526>>, <<8544, 8575>>, <<8579, 8580>>,
       <<9398, 9449>>, <<11264, 11492>>, <<11499, 11502>>, <<11506, 11507>>,
       <<11520, 11557>>, <<11559, 11559>>, <<11565, 11565>>, <<42560, 42605>>,
       <<42624, 42653>>, <<42786, 42887>>, <<42891, 42894>>, <<42896, 42954>>,
       <<42960, 42961>>, <<42963, 42963>>, <<42965, 42969>>, <<42997, 42998>>,
       <<43000, 43002>>, <<43824, 43866>>, <<43868, 43880>>, <<43888, 43967>>,
       <<64256, 64262>>, <<64275, 64279>>, <<65313, 65338>>, <<65345, 65370>>,
       <<66560, 66639>>, <<66736, 66771>>, <<66776, 66811>>, <<66928, 66938>>,
       <<66940, 66954>>, <<66956, 66962>>, <<66964, 66965>>, <<66967, 66977>>,
       <<66979, 66993>>, <<66995, 67001>>, <<67003, 67004>>, <<67456, 67456>>,
       <<67459, 67461>>, <<67463, 67504>>, <<67506, 67514>>, <<68736, 68786>>,
       <<68800, 68850>>, <<71840, 71903>>, <<93760, 93823>>, <<119808, 119892>>,
       <<119894, 119964>>, <<119966, 119967>>, <<119970, 119970>>,
       <<119973, 119974>>, <<119977, 119980>>, <<119982, 119993>>,
       <<119995, 119995>>, <<119997, 120003>>, <<120005, 120069>>,
       <<120071, 120074>>, <<120077, 120084>>, <<120086, 120092>>,
       <<120094, 120121>>, <<120123, 120126>>, <<120128, 120132>>,
       <<120134, 120134>>, <<120138, 120144>>, <<120146, 120485>>,
       <<120488, 120512>>, <<120514, 120538>>, <<120540, 120570>>,
       <<120572, 120596>>, <<120598, 120628>>, <<120630, 120654>>,
       <<120656, 120686>>, <<120688, 120712>>, <<120714, 120744>>,
       <<120746, 120770>>, <<120772, 120779>>, <<122624, 122633>>,
       <<122635, 122654>>, <<125184, 125251>>, <<127280, 127305>>,
       <<127312, 127337>>, <<127344, 127369>> >>

\* the code points with the property Case_Ignorable
CaseIgnorableRanges ==
    << <<39, 39>>, <<46, 46>>, <<58, 58>>, <<94, 94>>, <<96, 96>>, <<168, 168>>,
       <<173, 173>>, <<175, 175>>, <<180, 180>>, <<183, 184>>, <<688, 879>>,
       <<884, 885>>, <<890, 890>>, <<900, 901>>, <<903, 903>>, <<1155, 1161>>,
       <<1369, 1369>>, <<1375, 1375>>, <<1425, 1469>>, <<1471, 1471>>,
       <<1473, 1474>>, <<1476, 1477>>, <<1479, 1479>>, <<1524, 1524>>,
       <<1536, 1541>>, <<1552, 1562>>, <<1564, 1564>>, <<1600, 1600>>,
       <<1611, 1631>>, <<1648, 1648>>, <<1750, 1757>>, <<1759, 1768>>,
       <<1770, 1773>>, <<1807, 1807>>, <<1809, 1809>>, <<1840, 1866>>,
       <<1958, 1968>>, <<2027, 2037>>, <<2042, 2042>>, <<2045, 2045>>,
       <<2070, 2093>>, <<2137, 2139>>, <<2184, 2184>>, <<2192, 2193>>,
       <<2200, 2207>>, <<2249, 2306>>, <<2362, 2362>>, <<2364, 2364>>,
       <<2369, 2376>>, <<2381, 2381>>, <<2385, 2391>>, <<2402, 2403>>,
       <<2417, 2417>>, <<2433, 2433>>, <<2492, 2492>>, <<2497, 2500>>,
       <<2509, 2509>>, <<2530, 2531>>, <<2558, 2558>>, <<2561, 2562>>,
       <<2620, 2620>>, <<2625, 2626>>, <<2631, 2632>>, <<2635, 2637>>,
       <<2641, 2641>>, <<2672, 2673>>, <<2677, 2677>>, <<2689, 2690>>,
       <<2748, 2748>>, <<2753, 2757>>, <<2759, 2760>>, <<2765, 2765>>,
       <<2786, 2787>>, <<2810, 2815>>, <<2817, 2817>>, <<2876, 2876>>,
       <<2879, 2879>>, <<2881, 2884>>, <<2893, 2893>>, <<2901, 2902>>,
       <<2914, 2915>>, <<2946, 2946>>, <<3008, 3008>>, <<3021, 3021>>,
       <<3072, 3072>>, <<3076, 3076>>, <<3132, 3132>>, <<3134, 3136>>,
       <<3142, 3144>>, <<3146, 3149>>, <<3157, 3158>>, <<3170, 3171>>,
       <<3201, 3201>>, <<3260, 3260>>, <<3263, 3263>>, <<3270, 3270>>,
       <<3276, 3277>>, <<3298, 3299>>, <<3328, 3329>>, <<3387, 3388>>,
       <<3393, 3396>>, <<3405, 3405>>, <<3426, 3427>>, <<3457, 3457>>,
       <<3530, 3530>>, <<3538, 3540>>, <<3542, 3542>>, <<3633, 3633>>,
       <<3636, 3642>>, <<3654, 3662>>, <<3761, 3761>>, <<3764, 3772>>,
       <<3782, 3782>>, <<3784, 3789>>, <<3864, 3865>>, <<3893, 3893>>,
       <<3895, 3895>>, <<3897, 3897>>, <<3953, 3966>>, <<3968, 3972>>,
       <<3974, 3975>>, <<3981, 3991>>, <<3993, 4028>>, <<4038, 4038>>,
       <<4141, 4144>>, <<4146, 4151>>, <<4153, 4154>>, <<4157, 4158>>,
       <<4184, 4185>>, <<4190, 4192>>, <<4209, 4212>>, <<4226, 4226>>,
       <<4229, 4230>>, <<4237, 4237>>, <<4253, 4253>>, <<4348, 4348>>,
       <<4957, 4959>>, <<5906, 5908>>, <<5938, 5939>>, <<5970, 5971>>,
       <<6002, 6003>>, <<6068, 6069>>, <<6071, 6077>>, <<6086, 6086>>,
       <<6089, 6099>>, <<6103, 6103>>, <<6109, 6109>>, <<6155, 6159>>,
       <<6211, 6211>>, <<6277, 6278>>, <<6313, 6313>>, <<6432, 6434>>,
       <<6439, 6440>>, <<6450, 6450>>, <<6457, 6459>>, <<6679, 6680>>,
       <<6683, 6683>>, <<6742, 6742>>, <<6744, 6750>>, <<6752, 6752>>,
       <<6754, 6754>>, <<6757, 6764>>, <<6771, 6780>>, <<6783, 6783>>,
       <<6823, 6823>>, <<6832, 6862>>, <<6912, 6915>>, <<6964, 6964>>,
       <<6966, 6970>>, <<6972, 6972>>, <<6978, 6978>>, <<7019, 7027>>,
       <<7040, 7041>>, <<7074, 7077>>, <<7080, 7081>>, <<7083, 7085>>,
       <<7142, 7142>>, <<7144, 7145>>, <<7149, 7149>>, <<7151, 7153>>,
       <<7212, 7219>>, <<7222, 7223>>, <<7288, 7293>>, <<7376, 7378>>,
       <<7380, 7392>>, <<7394, 7400>>, <<7405, 7405>>, <<7412, 7412>>,
       <<7416, 7417>>, <<7468, 7530>>, <<7544, 7544>>, <<7579, 7679>>,
       <<8125, 8125>>, <<8127, 8129>>, <<8141, 8143>>, <<8157, 8159>>,
       <<8173, 8175>>, <<8189, 8190>>, <<8203, 8207>>, <<8216, 8217>>,
       <<8228, 8228>>, <<8231, 8231>>, <<8234, 8238>>, <<8288, 8292>>,
       <<8294, 8303>>, <<8305, 8305>>, <<8319, 8319>>, <<8336, 8348>>,
       <<8400, 8432>>, <<11388, 11389>>, <<11503, 11505>>, <<11631, 11631>>,
       <<11647, 11647>>, <<11744, 11775>>, <<11823, 11823>>, <<12293, 12293>>,
       <<12330, 12333>>, <<12337, 12341>>, <<12347, 12347>>, <<12441, 12446>>,
       <<12540, 12542>>, <<40981, 40981>>, <<42232, 42237>>, <<42508, 42508>>,
       <<42607, 42610>>, <<42612, 42621>>, <<42623, 42623>>, <<42652, 42655>>,
       <<42736, 42737>>, <<42752, 42785>>, <<42864, 42864>>, <<42888, 42890>>,
       <<42994, 42996>>, <<43000, 43001>>, <<43010, 43010>>, <<43014, 43014>>,
       <<43019, 43019>>, <<43045, 43046>>, <<43052, 43052>>, <<43204, 43205>>,
       <<43232, 43249>>, <<43263, 43263>>, <<43302, 43309>>, <<43335, 43345>>,
       <<43392, 43394>>, <<43443, 43443>>, <<43446, 43449>>, <<43452, 43453>>,
       <<43471, 43471>>, <<43493, 43494>>, <<43561, 43566>>, <<43569, 43570>>,
       <<43573, 43574>>, <<43587, 43587>>, <<43596, 43596>>, <<43632, 43632>>,
       <<43644, 43644>>, <<43696, 43696>>, <<43698, 43700>>, <<43703, 43704>>,
       <<43710, 43711>>, <<43713, 43713>>, <<43741, 43741>>, <<43756, 43757>>,
       <<43763, 43764>>, <<43766, 43766>>, <<43867, 43871>>, <<43881, 43883>>,
       <<44005, 44005>>, <<44008, 44008>>, <<44013, 44013>>, <<64286, 64286>>,
       <<64434, 64450>>, <<65024, 65039>>, <<65043, 65043>>, <<65056, 65071>>,
       <<65106, 65106>>, <<65109, 65109>>, <<65279, 65279>>, <<65287, 65287>>,
       <<65294, 65294>>, <<65306, 65306>>, <<65342, 65342>>, <<65344, 65344>>,
       <<65392, 65392>>, <<65438, 65439>>, <<65507, 65507>>, <<65529, 65531>>,
       <<66045, 66045>>, <<66272, 66272>>, <<66422, 66426>>, <<67456, 67461>>,
       <<67463, 67504>>, <<67506, 67514>>, <<68097, 68099>>, <<68101, 68102>>,
       <<68108, 68111>>, <<68152, 68154>>, <<68159, 68159>>, <<68325, 68326>>,
       <<68900, 68903>>, <<69291, 69292>>, <<69446, 69456>>, <<69506, 69509>>,
       <<69633, 69633>>, <<69688, 69702>>, <<69744, 69744>>, <<69747, 69748>>,
       <<69759, 69761>>, <<69811, 69814>>, <<69817, 69818>>, <<69821, 69821>>,
       <<69826, 69826>>, <<69837, 69837>>, <<69888, 69890>>, <<69927, 69931>>,
       <<69933, 69940>>, <<70003, 70003>>, <<70016, 70017>>, <<70070, 70078>>,
       <<70089, 70092>>, <<70095, 70095>>, <<70191, 70193>>, <<70196, 70196>>,
       <<70198, 70199>>, <<70206, 70206>>, <<70367, 70367>>, <<70371, 70378>>,
       <<70400, 70401>>, <<70459, 70460>>, <<70464, 70464>>, <<70502, 70508>>,
       <<70512, 70516>>, <<70712, 70719>>, <<70722, 70724>>, <<70726, 70726>>,
       <<70750, 70750>>, <<70835, 70840>>, <<70842, 70842>>, <<70847, 70848>>,
       <<70850, 70851>>, <<71090, 71093>>, <<71100, 71101>>, <<71103, 71104>>,
       <<71132, 71133>>, <<71219, 71226>>, <<71229, 71229>>, <<71231, 71232>>,
       <<71339, 71339>>, <<71341, 71341>>, <<71344, 71349>>, <<71351, 71351>>,
       <<71453, 71455>>, <<71458, 71461>>, <<71463, 71467>>, <<71727, 71735>>,
       <<71737, 71738>>, <<71995, 71996>>, <<71998, 71998>>, <<72003, 72003>>,
       <<72148, 72151>>, <<72154, 72155>>, <<72160, 72160>>, <<72193, 72202>>,
       <<72243, 72248>>, <<72251, 72254>>, <<72263, 72263>>, <<72273, 72278>>,
       <<72281, 72283>>, <<72330, 72342>>, <<72344, 72345>>, <<72752, 72758>>,
       <<72760, 72765>>, <<72767, 72767>>, <<72850, 72871>>, <<72874, 72880>>,
       <<72882, 72883>>, <<72885, 72886>>, <<73009, 73014>>, <<73018, 73018>>,
       <<73020, 73021>>, <<73023, 73029>>, <<73031, 73031>>, <<73104, 73105>>,
       <<73109, 73109>>, <<73111, 73111>>, <<73459, 73460>>, <<78896, 78904>>,
       <<92912, 92916>>, <<92976, 92982>>, <<92992, 92995>>, <<94031, 94031>>,
       <<94095, 94111>>, <<94176, 94177>>, <<94179, 94180>>, <<110576, 110579>>,
       <<110581, 110587>>, <<110589, 110590>>, <<113821, 113822>>,
       <<113824, 113827>>, <<118528, 118573>>, <<118576, 118598>>,
       <<119143, 119145>>, <<119155, 119170>>, <<119173, 119179>>,
       <<119210, 119213>>, <<119362, 119364>>, <<121344, 121398>>,
       <<121403, 121452>>, <<121461, 121461>>, <<121476, 121476>>,
       <<121499, 121503>>, <<121505, 121519>>, <<122880, 122886>>,
       <<122888, 122904>>, <<122907, 122913>>, <<122915, 122916>>,
       <<122918, 122922>>, <<123184, 123197>>, <<123566, 123566>>,
       <<123628, 123631>>, <<125136, 125142>>, <<125252, 125259>>,
       <<127995, 127999>>, <<917505, 917505>>, <<917536, 917631>>,
       <<917760, 917999>> >>

IsCased(c) == InRanges(c, CasedRanges)

IsCaseIgnorable(c) == InRanges(c, CaseIgnorableRanges)

\* the capital sigma at s[i] ends a word: going back over the case-ignorable
\* characters there is a cased one, going forward over them there is none
FinalSigma(s, i) ==
    /\ \E j \in 1..(i - 1) :
        /\ IsCased(s[j]) /\ ~IsCaseIgnorable(s[j])
        /\ \A k \in (j + 1)..(i - 1) : IsCaseIgnorable(s[k])
    /\ ~\E j \in (i + 1)..Len(s) :
        /\ IsCased(s[j]) /\ ~IsCaseIgnorable(s[j])
        /\ \A k \in (i + 1)..(j - 1) : IsCaseIgnorable(s[k])

\* the lower-case form of the character at s[i]: capital sigma (931) becomes
\* final small sigma (962) at the end of a word and small sigma (963)
\* elsewhere
LowerAt(s, i) ==
    IF s[i] = 931
    THEN IF FinalSigma(s, i) THEN <<962>> ELSE <<963>>
    ELSE LowerChar(s[i])

RECURSIVE LowerFrom(_, _)
LowerFrom(s, i) ==
    IF i > Len(s) THEN <<>> ELSE LowerAt(s, i) \o LowerFrom(s, i + 1)

\* str.lower
Lower(s) == LowerFrom(s, 1)

RECURSIVE LStrip(_)
LStrip(s) ==
    IF s = <<>> THEN <<>>
    ELSE IF IsSpace(Head(s)) THEN LStrip(Tail(s)) ELSE s

RECURSIVE RStrip(_)
RStrip(s) ==
    IF s = <<>> THEN <<>>
    ELSE IF IsSpace(s[Len(s)]) THEN RStrip(SubSeq(s, 1, Len(s) - 1)) ELSE s

\* str.strip
Strip(s) == RStrip(LStrip(s))

\* str.split() with no separator: the maximal runs of non-whitespace
RECURSIVE SplitFrom(_, _, _)
SplitFrom(s, cur, words) ==
    IF s = <<>>
    THEN IF cur = <<>> THEN words ELSE Append(words, cur)
    ELSE IF IsSpace(Head(s))
         THEN SplitFrom(Tail(s), <<>>,
                        IF cur = <<>> THEN words ELSE Append(words, cur))
         ELSE SplitFrom(Tail(s), Append(cur, Head(s)), words)

Split(s) == SplitFrom(s, <<>>, <<>>)

\* ' '.join(words)
RECURSIVE Join(_)
Join(words) ==
    IF words = <<>> THEN <<>>
    ELSE IF Len(words) = 1 THEN words[1]
    ELSE words[1] \o <<32>> \o Join(Tail(words))

\* punctuation the character filter keeps, per entry point
AllowedPunct(variant) ==
    IF variant = "cli"
    THEN {63, 46, 44, 33, 43, 45, 42, 47}   \* ? . , ! + - * /
    ELSE {63, 46, 44, 33, 45}               \* ? . , ! -

\* re.sub(r'[^\w\s...]', '', s)
RECURSIVE Filter(_, _)
Filter(variant, s) ==
    IF s = <<>> THEN <<>>
    ELSE IF IsWord(Head(s)) \/ IsSpace(Head(s)) \/ Head(s) \in AllowedPunct(variant)
         THEN <<Head(s)>> \o Filter(variant, Tail(s))
         ELSE Filter(variant, Tail(s))

preprocess_question(variant, question) ==
    Filter(variant, Join(Split(Strip(Lower(question)))))

(***************************************************************************)
(* Bounded inputs                                                          *)
(***************************************************************************)
\* a, A, space, vertical tab, @, +, capital I with dot above, capital sigma
Alphabet == {97, 65, 32, 11, 64, 43, 304, 931}

RECURSIVE StringsOfLen(_)
StringsOfLen(n) ==
    IF n = 0 THEN {<<>>}
    ELSE {Append(s, c) : s \in StringsOfLen(n - 1), c \in Alphabet}

Strings(n) == UNION {StringsOfLen(k) : k \in 0..n}

Variants == {"cli", "web"}

NoRes == [route |-> "none", sent |-> <<>>, signal |-> "none"]

NoReq == [route |-> "none", signal |-> "none", body |-> [t |-> "null"], line |-> <<>>]

NoFile == [set |-> FALSE, val |-> <<>>]

(***************************************************************************)
(***************************************************************************)
(* JSON values as Python objects                                           *)
(***************************************************************************)
Null == [t |-> "null"]

Bool(b) == [t |-> "bool", b |-> b]

Num(n) == [t |-> "num", n |-> n]

Str(s) == [t |-> "str", s |-> s]

List(xs) == [t |-> "list", xs |-> xs]

\* a dict: its items <<key, value>> in insertion order, keys being strings
Dict(items) == [t |-> "dict", items |-> items]

Keys(d) == {d.items[i][1] : i \in DOMAIN d.items}

\* k in x, for a dict
HasKey(x, k) == x.t = "dict" /\ k \in Keys(x)

\* d[k]
Lookup(d, k) == d.items[CHOOSE i \in DOMAIN d.items : d.items[i][1] = k][2]

ErrorKey == << 101, 114, 114, 111, 114 >>  \* "error"

CandidatesKey == << 99, 97, 110, 100, 105, 100, 97, 116, 101, 115 >>  \* "candidates"

ContentKey == << 99, 111, 110, 116, 101, 110, 116 >>  \* "content"

PartsKey == << 112, 97, 114, 116, 115 >>  \* "parts"

TextKey == << 116, 101, 120, 116 >>  \* "text"

QuestionKey == << 113, 117, 101, 115, 116, 105, 111, 110 >>  \* "question"

\* outcome of evaluating a Python expression that may raise
Exc == [t |-> "exc"]

\* results of a Python call: a returned value or a raised exception
NoExc == [type |-> "none", msg |-> <<>>]

PyRet(v) == [kind |-> "return", val |-> v, exc |-> NoExc]

PyRaise(type, msg) == [kind |-> "raise", val |-> <<>>, exc |-> [type |-> type, msg |-> msg]]

\* bool(x)
Truthy(x) ==
    CASE x.t = "null" -> FALSE
      [] x.t = "bool" -> x.b
      [] x.t = "num"  -> x.n # 0
      [] x.t = "str"  -> x.s # <<>>
      [] x.t = "list" -> x.xs # <<>>
      [] x.t = "dict" -> x.items # <<>>
      [] OTHER        -> FALSE

\* x.get(k, default): only a dict has the method
Get(x, k, default) ==
    IF x.t = "dict"
    THEN IF k \in Keys(x) THEN Lookup(x, k) ELSE default
    ELSE Exc

\* x[0]
Index0(x) ==
    CASE x.t = "list" -> IF x.xs # <<>> THEN x.xs[1] ELSE Exc
      [] x.t = "str"  -> IF x.s # <<>> THEN Str(<<x.s[1]>>) ELSE Exc
      [] OTHER        -> Exc

\* sub in s, for strings
Contains(s, sub) ==
    \E i \in 0..(Len(s) - Len(sub)) : SubSeq(s, i + 1, i + Len(sub)) = sub

\* type(x).__name__
PyTypeName(x) ==
    CASE x.t = "null" -> << 78, 111, 110, 101, 84, 121, 112, 101 >>  \* "NoneType"
      [] x.t = "bool" -> << 98, 111, 111, 108 >>  \* "bool"
      [] x.t = "num"  -> << 105, 110, 116 >>  \* "int"
      [] x.t = "str"  -> << 115, 116, 114 >>  \* "str"
      [] x.t = "list" -> << 108, 105, 115, 116 >>  \* "list"
      [] OTHER        -> << 100, 105, 99, 116 >>  \* "dict"

\* the digits 0123456789abcdef
DigitChars ==
    << 48, 49, 50, 51, 52, 53, 54, 55, 56, 57, 97, 98, 99, 100, 101, 102 >>

\* str(n) of an integer
RECURSIVE Decimal(_)
Decimal(n) ==
    IF n < 0 THEN <<45>> \o Decimal(0 - n)
    ELSE IF n < 10 THEN <<DigitChars[n + 1]>>
    ELSE Decimal(n \div 10) \o <<DigitChars[(n % 10) + 1]>>

\* n in hexadecimal, width digits
RECURSIVE Hex(_, _)
Hex(n, width) ==
    IF width = 0 THEN <<>>
    ELSE Hex(n \div 16, width - 1) \o <<DigitChars[(n % 16) + 1]>>

\* the code points for which str.isprintable is true
PrintableRanges ==
    << <<32, 126>>, <<161, 172>>, <<174, 887>>, <<890, 895>>, <<900, 906>>,
       <<908, 908>>, <<910, 929>>, <<931, 1327>>, <<1329, 1366>>,
       <<1369, 1418>>, <<1421, 1423>>, <<1425, 1479>>, <<1488, 1514>>,
       <<1519, 1524>>, <<1542, 1563>>, <<1565, 1756>>, <<1758, 1805>>,
       <<1808, 1866>>, <<1869, 1969>>, <<1984, 2042>>, <<2045, 2093>>,
       <<2096, 2110>>, <<2112, 2139>>, <<2142, 2142>>, <<2144, 2154>>,
       <<2160, 2190>>, <<2200, 2273>>, <<2275, 2435>>, <<2437, 2444>>,
       <<2447, 2448>>, <<2451, 2472>>, <<2474, 2480>>, <<2482, 2482>>,
       <<2486, 2489>>, <<2492, 2500>>, <<2503, 2504>>, <<2507, 2510>>,
       <<2519, 2519>>, <<2524, 2525>>, <<2527, 2531>>, <<2534, 2558>>,
       <<2561, 2563>>, <<2565, 2570>>, <<2575, 2576>>, <<2579, 2600>>,
       <<2602, 2608>>, <<2610, 2611>>, <<2613, 2614>>, <<2616, 2617>>,
       <<2620, 2620>>, <<2622, 2626>>, <<2631, 2632>>, <<2635, 2637>>,
       <<2641, 2641>>, <<2649, 2652>>, <<2654, 2654>>, <<2662, 2678>>,
       <<2689, 2691>>, <<2693, 2701>>, <<2703, 2705>>, <<2707, 2728>>,
       <<2730, 2736>>, <<2738, 2739>>, <<2741, 2745>>, <<2748, 2757>>,
       <<2759, 2761>>, <<2763, 2765>>, <<2768, 2768>>, <<2784, 2787>>,
       <<2790, 2801>>, <<2809, 2815>>, <<2817, 2819>>, <<2821, 2828>>,
       <<2831, 2832>>, <<2835, 2856>>, <<2858, 2864>>, <<2866, 2867>>,
       <<2869, 2873>>, <<2876, 2884>>, <<2887, 2888>>, <<2891, 2893>>,
       <<2901, 2903>>, <<2908, 2909>>, <<2911, 2915>>, <<2918, 2935>>,
       <<2946, 2947>>, <<2949, 2954>>, <<2958, 2960>>, <<2962, 2965>>,
       <<2969, 2970>>, <<2972, 2972>>, <<2974, 2975>>, <<2979, 2980>>,
       <<2984, 2986>>, <<2990, 3001>>, <<3006, 3010>>, <<3014, 3016>>,
       <<3018, 3021>>, <<3024, 3024>>, <<3031, 3031>>, <<3046, 3066>>,
       <<3072, 3084>>, <<3086, 3088>>, <<3090, 3112>>, <<3114, 3129>>,
       <<3132, 3140>>, <<3142, 3144>>, <<3146, 3149>>, <<3157, 3158>>,
       <<3160, 3162>>, <<3165, 3165>>, <<3168, 3171>>, <<3174, 3183>>,
       <<3191, 3212>>, <<3214, 3216>>, <<3218, 3240>>, <<3242, 3251>>,
       <<3253, 3257>>, <<3260, 3268>>, <<3270, 3272>>, <<3274, 3277>>,
       <<3285, 3286>>, <<3293, 3294>>, <<3296, 3299>>, <<3302, 3311>>,
       <<3313, 3314>>, <<3328, 3340>>, <<3342, 3344>>, <<3346, 3396>>,
       <<3398, 3400>>, <<3402, 3407>>, <<3412, 3427>>, <<3430, 3455>>,
       <<3457, 3459>>, <<3461, 3478>>, <<3482, 3505>>, <<3507, 3515>>,
       <<3517, 3517>>, <<3520, 3526>>, <<3530, 3530>>, <<3535, 3540>>,
       <<3542, 3542>>, <<3544, 3551>>, <<3558, 3567>>, <<3570, 3572>>,
       <<3585, 3642>>, <<3647, 3675>>, <<3713, 3714>>, <<3716, 3716>>,
       <<3718, 3722>>, <<3724, 3747>>, <<3749, 3749>>, <<3751, 3773>>,
       <<3776, 3780>>, <<3782, 3782>>, <<3784, 3789>>, <<3792, 3801>>,
       <<3804, 3807>>, <<3840, 3911>>, <<3913, 3948>>, <<3953, 3991>>,
       <<3993, 4028>>, <<4030, 4044>>, <<4046, 4058>>, <<4096, 4293>>,
       <<4295, 4295>>, <<4301, 4301>>, <<4304, 4680>>, <<4682, 4685>>,
       <<4688, 4694>>, <<4696, 4696>>, <<4698, 4701>>, <<4704, 4744>>,
       <<4746, 4749>>, <<4752, 4784>>, <<4786, 4789>>, <<4792, 4798>>,
       <<4800, 4800>>, <<4802, 4805>>, <<4808, 4822>>, <<4824, 4880>>,
       <<4882, 4885>>, <<4888, 4954>>, <<4957, 4988>>, <<4992, 5017>>,
       <<5024, 5109>>, <<5112, 5117>>, <<5120, 5759>>, <<5761, 5788>>,
       <<5792, 5880>>, <<5888, 5909>>, <<5919, 5942>>, <<5952, 5971>>,
       <<5984, 5996>>, <<5998, 6000>>, <<6002, 6003>>, <<6016, 6109>>,
       <<6112, 6121>>, <<6128, 6137>>, <<6144, 6157>>, <<6159, 6169>>,
       <<6176, 6264>>, <<6272, 6314>>, <<6320, 6389>>, <<6400, 6430>>,
       <<6432, 6443>>, <<6448, 6459>>, <<6464, 6464>>, <<6468, 6509>>,
       <<6512, 6516>>, <<6528, 6571>>, <<6576, 6601>>, <<6608, 6618>>,
       <<6622, 6683>>, <<6686, 6750>>, <<6752, 6780>>, <<6783, 6793>>,
       <<6800, 6809>>, <<6816, 6829>>, <<6832, 6862>>, <<6912, 6988>>,
       <<6992, 7038>>, <<7040, 7155>>, <<7164, 7223>>, <<7227, 7241>>,
       <<7245, 7304>>, <<7312, 7354>>, <<7357, 7367>>, <<7376, 7418>>,
       <<7424, 7957>>, <<7960, 7965>>, <<7968, 8005>>, <<8008, 8013>>,
       <<8016, 8023>>, <<8025, 8025>>, <<8027, 8027>>, <<8029, 8029>>,
       <<8031, 8061>>, <<8064, 8116>>, <<8118, 8132>>, <<8134, 8147>>,
       <<8150, 8155>>, <<8157, 8175>>, <<8178, 8180>>, <<8182, 8190>>,
       <<8208, 8231>>, <<8240, 8286>>, <<8304, 8305>>, <<8308, 8334>>,
       <<8336, 8348>>, <<8352, 8384>>, <<8400, 8432>>, <<8448, 8587>>,
       <<8592, 9254>>, <<9280, 9290>>, <<9312, 11123>>, <<11126, 11157>>,
       <<11159, 11507>>, <<11513, 11557>>, <<11559, 11559>>, <<11565, 11565>>,
       <<11568, 11623>>, <<11631, 11632>>, <<11647, 11670>>, <<11680, 11686>>,
       <<11688, 11694>>, <<11696, 11702>>, <<11704, 11710>>, <<11712, 11718>>,
       <<11720, 11726>>, <<11728, 11734>>, <<11736, 11742>>, <<11744, 11869>>,
       <<11904, 11929>>, <<11931, 12019>>, <<12032, 12245>>, <<12272, 12283>>,
       <<12289, 12351>>, <<12353, 12438>>, <<12441, 12543>>, <<12549, 12591>>,
       <<12593, 12686>>, <<12688, 12771>>, <<12784, 12830>>, <<12832, 42124>>,
       <<42128, 42182>>, <<42192, 42539>>, <<42560, 42743>>, <<42752, 42954>>,
       <<42960, 42961>>, <<42963, 42963>>, <<42965, 42969>>, <<42994, 43052>>,
       <<43056, 43065>>, <<43072, 43127>>, <<43136, 43205>>, <<43214, 43225>>,
       <<43232, 43347>>, <<43359, 43388>>, <<43392, 43469>>, <<43471, 43481>>,
       <<43486, 43518>>, <<43520, 43574>>, <<43584, 43597>>, <<43600, 43609>>,
       <<43612, 43714>>, <<43739, 43766>>, <<43777, 43782>>, <<43785, 43790>>,
       <<43793, 43798>>, <<43808, 43814>>, <<43816, 43822>>, <<43824, 43883>>,
       <<43888, 44013>>, <<44016, 44025>>, <<44032, 55203>>, <<55216, 55238>>,
       <<55243, 55291>>, <<63744, 64109>>, <<64112, 64217>>, <<64256, 64262>>,
       <<64275, 64279>>, <<64285, 64310>>, <<64312, 64316>>, <<64318, 64318>>,
       <<64320, 64321>>, <<64323, 64324>>, <<64326, 64450>>, <<64467, 64911>>,
       <<64914, 64967>>, <<64975, 64975>>, <<65008, 65049>>, <<65056, 65106>>,
       <<65108, 65126>>, <<65128, 65131>>, <<65136, 65140>>, <<65142, 65276>>,
       <<65281, 65470>>, <<65474, 65479>>, <<65482, 65487>>, <<65490, 65495>>,
       <<65498, 65500>>, <<65504, 65510>>, <<65512, 65518>>, <<65532, 65533>>,
       <<65536, 65547>>, <<65549, 65574>>, <<65576, 65594>>, <<65596, 65597>>,
       <<65599, 65613>>, <<65616, 65629>>, <<65664, 65786>>, <<65792, 65794>>,
       <<65799, 65843>>, <<65847, 65934>>, <<65936, 65948>>, <<65952, 65952>>,
       <<66000, 66045>>, <<66176, 66204>>, <<66208, 66256>>, <<66272, 66299>>,
       <<66304, 66339>>, <<66349, 66378>>, <<66384, 66426>>, <<66432, 66461>>,
       <<66463, 66499>>, <<66504, 66517>>, <<66560, 66717>>, <<66720, 66729>>,
       <<66736, 66771>>, <<66776, 66811>>, <<66816, 66855>>, <<66864, 66915>>,
       <<66927, 66938>>, <<66940, 66954>>, <<66956, 66962>>, <<66964, 66965>>,
       <<66967, 66977>>, <<66979, 66993>>, <<66995, 67001>>, <<67003, 67004>>,
       <<67072, 67382>>, <<67392, 67413>>, <<67424, 67431>>, <<67456, 67461>>,
       <<67463, 67504>>, <<67506, 67514>>, <<67584, 67589>>, <<67592, 67592>>,
       <<67594, 67637>>, <<67639, 67640>>, <<67644, 67644>>, <<67647, 67669>>,
       <<67671, 67742>>, <<67751, 67759>>, <<67808, 67826>>, <<67828, 67829>>,
       <<67835, 67867>>, <<67871, 67897>>, <<67903, 67903>>, <<67968, 68023>>,
       <<68028, 68047>>, <<68050, 68099>>, <<68101, 68102>>, <<68108, 68115>>,
       <<68117, 68119>>, <<68121, 68149>>, <<68152, 68154>>, <<68159, 68168>>,
       <<68176, 68184>>, <<68192, 68255>>, <<68288, 68326>>, <<68331, 68342>>,
       <<68352, 68405>>, <<68409, 68437>>, <<68440, 68466>>, <<68472, 68497>>,
       <<68505, 68508>>, <<68521, 68527>>, <<68608, 68680>>, <<68736, 68786>>,
       <<68800, 68850>>, <<68858, 68903>>, <<68912, 68921>>, <<69216, 69246>>,
       <<69248, 69289>>, <<69291, 69293>>, <<69296, 69297>>, <<69376, 69415>>,
       <<69424, 69465>>, <<69488, 69513>>, <<69552, 69579>>, <<69600, 69622>>,
       <<69632, 69709>>, <<69714, 69749>>, <<69759, 69820>>, <<69822, 69826>>,
       <<69840, 69864>>, <<69872, 69881>>, <<69888, 69940>>, <<69942, 69959>>,
       <<69968, 70006>>, <<70016, 70111>>, <<70113, 70132>>, <<70144, 70161>>,
       <<70163, 70206>>, <<70272, 70278>>, <<70280, 70280>>, <<70282, 70285>>,
       <<70287, 70301>>, <<70303, 70313>>, <<70320, 70378>>, <<70384, 70393>>,
       <<70400, 70403>>, <<70405, 70412>>, <<70415, 70416>>, <<70419, 70440>>,
       <<70442, 70448>>, <<70450, 70451>>, <<70453, 70457>>, <<70459, 70468>>,
       <<70471, 70472>>, <<70475, 70477>>, <<70480, 70480>>, <<70487, 70487>>,
       <<70493, 70499>>, <<70502, 70508>>, <<70512, 70516>>, <<70656, 70747>>,
       <<70749, 70753>>, <<70784, 70855>>, <<70864, 70873>>, <<71040, 71093>>,
       <<71096, 71133>>, <<71168, 71236>>, <<71248, 71257>>, <<71264, 71276>>,
       <<71296, 71353>>, <<71360, 71369>>, <<71424, 71450>>, <<71453, 71467>>,
       <<71472, 71494>>, <<71680, 71739>>, <<71840, 71922>>, <<71935, 71942>>,
       <<71945, 71945>>, <<71948, 71955>>, <<71957, 71958>>, <<71960, 71989>>,
       <<71991, 71992>>, <<71995, 72006>>, <<72016, 72025>>, <<72096, 72103>>,
       <<72106, 72151>>, <<72154, 72164>>, <<72192, 72263>>, <<72272, 72354>>,
       <<72368, 72440>>, <<72704, 72712>>, <<72714, 72758>>, <<72760, 72773>>,
       <<72784, 72812>>, <<72816, 72847>>, <<72850, 72871>>, <<72873, 72886>>,
       <<72960, 72966>>, <<72968, 72969>>, <<72971, 73014>>, <<73018, 73018>>,
       <<73020, 73021>>, <<73023, 73031>>, <<73040, 73049>>, <<73056, 73061>>,
       <<73063, 73064>>, <<73066, 73102>>, <<73104, 73105>>, <<73107, 73112>>,
       <<73120, 73129>>, <<73440, 73464>>, <<73648, 73648>>, <<73664, 73713>>,
       <<73727, 74649>>, <<74752, 74862>>, <<74864, 74868>>, <<74880, 75075>>,
       <<77712, 77810>>, <<77824, 78894>>, <<82944, 83526>>, <<92160, 92728>>,
       <<92736, 92766>>, <<92768, 92777>>, <<92782, 92862>>, <<92864, 92873>>,
       <<92880, 92909>>, <<92912, 92917>>, <<92928, 92997>>, <<93008, 93017>>,
       <<93019, 93025>>, <<93027, 93047>>, <<93053, 93071>>, <<93760, 93850>>,
       <<93952, 94026>>, <<94031, 94087>>, <<94095, 94111>>, <<94176, 94180>>,
       <<94192, 94193>>, <<94208, 100343>>, <<100352, 101589>>,
       <<101632, 101640>>, <<110576, 110579>>, <<110581, 110587>>,
       <<110589, 110590>>, <<110592, 110882>>, <<110928, 110930>>,
       <<110948, 110951>>, <<110960, 111355>>, <<113664, 113770>>,
       <<113776, 113788>>, <<113792, 113800>>, <<113808, 113817>>,
       <<113820, 113823>>, <<118528, 118573>>, <<118576, 118598>>,
       <<118608, 118723>>, <<118784, 119029>>, <<119040, 119078>>,
       <<119081, 119154>>, <<119163, 119274>>, <<119296, 119365>>,
       <<119520, 119539>>, <<119552, 119638>>, <<119648, 119672>>,
       <<119808, 119892>>, <<119894, 119964>>, <<119966, 119967>>,
       <<119970, 119970>>, <<119973, 119974>>, <<119977, 119980>>,
       <<119982, 119993>>, <<119995, 119995>>, <<119997, 120003>>,
       <<120005, 120069>>, <<120071, 120074>>, <<120077, 120084>>,
       <<120086, 120092>>, <<120094, 120121>>, <<120123, 120126>>,
       <<120128, 120132>>, <<120134, 120134>>, <<120138, 120144>>,
       <<120146, 120485>>, <<120488, 120779>>, <<120782, 121483>>,
       <<121499, 121503>>, <<121505, 121519>>, <<122624, 122654>>,
       <<122880, 122886>>, <<122888, 122904>>, <<122907, 122913>>,
       <<122915, 122916>>, <<122918, 122922>>, <<123136, 123180>>,
       <<123184, 123197>>, <<123200, 123209>>, <<123214, 123215>>,
       <<123536, 123566>>, <<123584, 123641>>, <<123647, 123647>>,
       <<124896, 124902>>, <<124904, 124907>>, <<124909, 124910>>,
       <<124912, 124926>>, <<124928, 125124>>, <<125127, 125142>>,
       <<125184, 125259>>, <<125264, 125273>>, <<125278, 125279>>,
       <<126065, 126132>>, <<126209, 126269>>, <<126464, 126467>>,
       <<126469, 126495>>, <<126497, 126498>>, <<126500, 126500>>,
       <<126503, 126503>>, <<126505, 126514>>, <<126516, 126519>>,
       <<126521, 126521>>, <<126523, 126523>>, <<126530, 126530>>,
       <<126535, 126535>>, <<126537, 126537>>, <<126539, 126539>>,
       <<126541, 126543>>, <<126545, 126546>>, <<126548, 126548>>,
       <<126551, 126551>>, <<126553, 126553>>, <<126555, 126555>>,
       <<126557, 126557>>, <<126559, 126559>>, <<126561, 126562>>,
       <<126564, 126564>>, <<126567, 126570>>, <<126572, 126578>>,
       <<126580, 126583>>, <<126585, 126588>>, <<126590, 126590>>,
       <<126592, 126601>>, <<126603, 126619>>, <<126625, 126627>>,
       <<126629, 126633>>, <<126635, 126651>>, <<126704, 126705>>,
       <<126976, 127019>>, <<127024, 127123>>, <<127136, 127150>>,
       <<127153, 127167>>, <<127169, 127183>>, <<127185, 127221>>,
       <<127232, 127405>>, <<127462, 127490>>, <<127504, 127547>>,
       <<127552, 127560>>, <<127568, 127569>>, <<127584, 127589>>,
       <<127744, 128727>>, <<128733, 128748>>, <<128752, 128764>>,
       <<128768, 128883>>, <<128896, 128984>>, <<128992, 129003>>,
       <<129008, 129008>>, <<129024, 129035>>, <<129040, 129095>>,
       <<129104, 129113>>, <<129120, 129159>>, <<129168, 129197>>,
       <<129200, 129201>>, <<129280, 129619>>, <<129632, 129645>>,
       <<129648, 129652>>, <<129656, 129660>>, <<129664, 129670>>,
       <<129680, 129708>>, <<129712, 129722>>, <<129728, 129733>>,
       <<129744, 129753>>, <<129760, 129767>>, <<129776, 129782>>,
       <<129792, 129938>>, <<129940, 129994>>, <<130032, 130041>>,
       <<131072, 173791>>, <<173824, 177976>>, <<177984, 178205>>,
       <<178208, 183969>>, <<183984, 191456>>, <<194560, 195101>>,
       <<196608, 201546>>, <<917760, 917999>> >>

IsPrintable(c) == InRanges(c, PrintableRanges)

\* how repr writes one character of a string quoted with quote: a backslash
\* before the quote and the backslash, \t \n \r, and \xhh, \uhhhh or
\* \Uhhhhhhhh for every other character that is not printable
ReprChar(c, quote) ==
    IF c = quote \/ c = 92 THEN <<92, c>>
    ELSE IF c = 9 THEN <<92, 116>>
    ELSE IF c = 10 THEN <<92, 110>>
    ELSE IF c = 13 THEN <<92, 114>>
    ELSE IF c < 32 \/ c = 127 THEN <<92, 120>> \o Hex(c, 2)
    ELSE IF c < 127 THEN <<c>>
    ELSE IF IsPrintable(c) THEN <<c>>
    ELSE IF c <= 255 THEN <<92, 120>> \o Hex(c, 2)
    ELSE IF c <= 65535 THEN <<92, 117>> \o Hex(c, 4)
    ELSE <<92, 85>> \o Hex(c, 8)

RECURSIVE ReprChars(_, _)
ReprChars(s, quote) ==
    IF s = <<>> THEN <<>>
    ELSE ReprChar(Head(s), quote) \o ReprChars(Tail(s), quote)

\* 39 or 34: repr quotes a string with ', unless it holds a ' and no "
QuoteOf(s) ==
    IF (\E i \in DOMAIN s : s[i] = 39) /\ ~(\E i \in DOMAIN s : s[i] = 34)
    THEN 34 ELSE 39

\* repr of a string
ReprStr(s) == <<QuoteOf(s)>> \o ReprChars(s, QuoteOf(s)) \o <<QuoteOf(s)>>

RECURSIVE PyRepr(_)
RECURSIVE ReprElems(_)
RECURSIVE ReprItems(_)
\* the elements of a list, separated by ", "
ReprElems(xs) ==
    IF xs = <<>> THEN <<>>
    ELSE PyRepr(Head(xs)) \o
         (IF Len(xs) > 1 THEN << 44, 32 >> \o ReprElems(Tail(xs)) ELSE <<>>)  \* ", "

\* the items of a dict as key: value, separated by ", "
ReprItems(items) ==
    IF items = <<>> THEN <<>>
    ELSE ReprStr(Head(items)[1]) \o << 58, 32 >> \o PyRepr(Head(items)[2]) \o  \* ": "
         (IF Len(items) > 1 THEN << 44, 32 >> \o ReprItems(Tail(items)) ELSE <<>>)  \* ", "

\* repr(x)
PyRepr(x) ==
    CASE x.t = "null" -> << 78, 111, 110, 101 >>  \* "None"
      [] x.t = "bool" -> IF x.b THEN << 84, 114, 117, 101 >>  \* "True"
                         ELSE << 70, 97, 108, 115, 101 >>  \* "False"
      [] x.t = "num"  -> Decimal(x.n)
      [] x.t = "str"  -> ReprStr(x.s)
      [] x.t = "list" -> << 91 >> \o ReprElems(x.xs) \o << 93 >>  \* "[" | "]"
      [] OTHER        -> << 123 >> \o ReprItems(x.items) \o << 125 >>  \* "{" | "}"

\* str(x), as an f-string formats it
PyStr(x) == IF x.t = "str" THEN x.s ELSE PyRepr(x)

(***************************************************************************)
(* preprocess_question applied on its own, then to its own result          *)
(***************************************************************************)
InitNorm ==
    /\ entry \in Variants
    /\ env_key = [set |-> TRUE, val |-> << 107 >>]  \* "k"
    /\ dotenv = NoFile
    /\ qa_system = TRUE
    /\ pc = "fn"
    /\ req = NoReq
    /\ net = <<>>
    /\ res = NoRes
    /\ pending = EmptyBag
    /\ arg \in Strings(MaxLen)
    /\ ret = <<>>
    /\ passes = 0

Normalize ==
    /\ pc = "fn"
    /\ passes = 0
    /\ ret' = preprocess_question(entry, arg)
    /\ passes' = 1
    /\ UNCHANGED <<entry, env_key, dotenv, qa_system, pc, req, net, res, pending, arg>>

NormalizeAgain ==
    /\ pc = "fn"
    /\ passes \in 1..(MaxPasses - 1)
    /\ arg' = ret
    /\ ret' = preprocess_question(entry, ret)
    /\ passes' = passes + 1
    /\ UNCHANGED <<entry, env_key, dotenv, qa_system, pc, req, net, res, pending>>

NextNorm == Normalize \/ NormalizeAgain

SpecNorm == InitNorm /\ [][NextNorm]_vars

\* C1: normalizing an already-normalized string yields the same string
C1_Idempotent == passes >= 2 => ret = arg

HasWhitespaceRun(s) ==
    \E i \in 1..(Len(s) - 1) : IsSpace(s[i]) /\ IsSpace(s[i + 1])

\* C2: the normalized string has no leading or trailing whitespace and no
\* run of two or more whitespace characters
C2_WhitespaceCollapsed ==
    passes = 1 =>
        /\ ret = Strip(ret)
        /\ ~HasWhitespaceRun(ret)

(***************************************************************************)
(* extract_answer                                                          *)
(***************************************************************************)
ErrorPrefix ==
    << 69, 114, 114, 111, 114, 58, 32 >>  \* "Error: "

ParseFallback ==
    << 85, 110, 97, 98, 108, 101, 32, 116, 111, 32, 112, 97, 114, 115,
       101, 32, 114, 101, 115, 112, 111, 110, 115, 101, 32, 102, 114,
       111, 109, 32, 71, 101, 109, 105, 110, 105 >>  \* "Unable to parse response from Gemini"

WebFallback ==
    << 85, 110, 97, 98, 108, 101, 32, 116, 111, 32, 103, 101, 116, 32,
       97, 32, 118, 97, 108, 105, 100, 32, 114, 101, 115, 112, 111,
       110, 115, 101, 32, 102, 114, 111, 109, 32, 71, 101, 109, 105,
       110, 105 >>  \* "Unable to get a valid response from Gemini"

CliFallback ==
    << 85, 110, 97, 98, 108, 101, 32, 116, 111, 32, 103, 101, 116, 32,
       114, 101, 115, 112, 111, 110, 115, 101, 32, 102, 114, 111, 109,
       32, 71, 101, 109, 105, 110, 105 >>  \* "Unable to get response from Gemini"

ListIndexMsg ==
    << 108, 105, 115, 116, 32, 105, 110, 100, 105, 99, 101, 115, 32,
       109, 117, 115, 116, 32, 98, 101, 32, 105, 110, 116, 101, 103,
       101, 114, 115, 32, 111, 114, 32, 115, 108, 105, 99, 101, 115,
       44, 32, 110, 111, 116, 32, 115, 116, 114 >>  \* "list indices must be integers or slices, not str"

StrIndexMsg ==
    << 115, 116, 114, 105, 110, 103, 32, 105, 110, 100, 105, 99, 101,
       115, 32, 109, 117, 115, 116, 32, 98, 101, 32, 105, 110, 116,
       101, 103, 101, 114, 115, 44, 32, 110, 111, 116, 32, 39, 115,
       116, 114, 39 >>  \* "string indices must be integers, not 'str'"

\* the message of the TypeError of "error" in x
NotIterableMsg(x) ==
    << 97, 114, 103, 117, 109, 101, 110, 116, 32, 111, 102, 32, 116,
       121, 112, 101, 32, 39 >> \o PyTypeName(x) \o  \* "argument of type '"
    << 39, 32, 105, 115, 32, 110, 111, 116, 32, 105, 116, 101, 114, 97,
       98, 108, 101 >>  \* "' is not iterable"

\* "error" in response: a key of a dict, an element of a list, a substring
\* of a string
ErrorIn(response) ==
    CASE response.t = "dict" -> ErrorKey \in Keys(response)
      [] response.t = "list" ->
            \E i \in DOMAIN response.xs :
                response.xs[i].t = "str" /\ response.xs[i].s = ErrorKey
      [] response.t = "str"  -> Contains(response.s, ErrorKey)
      [] OTHER               -> FALSE

\* None, booleans and numbers are not iterable
Iterable(response) == response.t \in {"dict", "list", "str"}

\* control enters the try block
ReachesTry(response) == Iterable(response) /\ ~ErrorIn(response)

Fallback(variant) == IF variant = "cli" THEN CliFallback ELSE WebFallback

Fall == [t |-> "fall"]

\* parts[0].get('text', '').strip(); Exc when a step raises
WalkText(text) ==
    IF text = Exc THEN Exc
    ELSE IF text.t # "str" THEN Exc
    ELSE [t |-> "text", s |-> Strip(text.s)]

\* parts[0]
WalkPart(part) ==
    IF part = Exc THEN Exc ELSE WalkText(Get(part, TextKey, Str(<<>>)))

\* if parts: ...; Fall when the condition is false and control leaves the
\* try block
WalkParts(parts) ==
    IF parts = Exc THEN Exc
    ELSE IF ~Truthy(parts) THEN Fall
    ELSE WalkPart(Index0(parts))

\* candidates[0].get('content', {}).get('parts', [])
WalkContent(content) ==
    IF content = Exc THEN Exc
    ELSE WalkParts(Get(content, PartsKey, List(<<>>)))

\* candidates[0]
WalkFirst(first) ==
    IF first = Exc THEN Exc
    ELSE WalkContent(Get(first, ContentKey, Dict(<<>>)))

\* if candidates: ...
WalkCandidates(candidates) ==
    IF candidates = Exc THEN Exc
    ELSE IF ~Truthy(candidates) THEN Fall
    ELSE WalkFirst(Index0(candidates))

\* the body of the try block: the answer text, Fall when a condition is
\* false and control leaves the block, Exc when a step raises
Walk(response) == WalkCandidates(Get(response, CandidatesKey, List(<<>>)))

\* the places of one iteration of the CLI loop, after input() returned,
\* where a SIGINT can be delivered; each stands for the lines of
\* LLM_QA_CLI.py from which the KeyboardInterrupt has the same effect:
\*   main          113, 115, 119, 123: inside the try block of main(), before
\*                 the line is acted on
\*   ask_head      87-91, ask_question before preprocess_question
\*   preprocess    30-34, inside preprocess_question
\*   ask_query     92, ask_question before query_llm
\*   query_head    44-49, query_llm before construct_prompt
\*   construct     37 and 49-62, from construct_prompt to requests.post
\*   post          62, inside requests.post
\*   post_return   63-69, query_llm after requests.post returned or raised
\*   ask_mid       93, ask_question before extract_answer
\*   extract_head  72-73, 82, 84 and 94, extract_answer outside its try block
\*   extract_try   76-80, inside the try block
\*   print         116, 120, 125-128, 134: the print that ends the iteration
\*   continue      117, the jump of the continue statement, which lies
\*                 outside the range the try block protects
\*   back_edge     111, the jump back to the head of the loop after the try
\*                 statement, equally unprotected
SigPoints ==
    {"none", "main", "ask_head", "preprocess", "ask_query", "query_head",
     "construct", "post", "post_return", "ask_mid", "extract_head",
     "extract_try", "print", "continue", "back_edge"}

\* sigint = "extract_head": KeyboardInterrupt outside the try block's
\* protection, which propagates; "extract_try": inside the block, where the
\* bare except catches it
extract_answer(variant, response, sigint) ==
    IF sigint = "extract_head"
    THEN PyRaise("KeyboardInterrupt", <<>>)
    ELSE IF ~Iterable(response)
    THEN PyRaise("TypeError", NotIterableMsg(response))
    ELSE IF ErrorIn(response)
    THEN CASE response.t = "dict" ->
                PyRet(ErrorPrefix \o PyStr(Lookup(response, ErrorKey)))
           [] response.t = "list" -> PyRaise("TypeError", ListIndexMsg)
           [] OTHER               -> PyRaise("TypeError", StrIndexMsg)
    ELSE IF sigint = "extract_try"
    THEN PyRet(ParseFallback)
    ELSE LET w == Walk(response)
         IN  CASE w = Exc       -> PyRet(ParseFallback)
               [] w.t = "text"  -> PyRet(w.s)
               [] OTHER         -> PyRet(Fallback(variant))

(***************************************************************************)
(* Bounded response shapes                                                 *)
(***************************************************************************)
Hi == << 11, 104, 105, 32 >>  \* "<U+000B>hi "

One(k, v) == Dict(<< <<k, v>> >>)

TextVals == {Str(Hi), Str(<<>>), Num(5), Null}

PartVals == {Dict(<<>>), Null} \cup {One(TextKey, x) : x \in TextVals}

PartsVals == {List(<<>>), Null, Dict(<<>>), Str(<< 120 >>)}  \* "x"
                \cup {List(<<p>>) : p \in PartVals}

ContentVals == {Dict(<<>>), Null, List(<<>>)}
                \cup {One(PartsKey, ps) : ps \in PartsVals}

CandidateVals == {Dict(<<>>), Null, Num(5)}
                \cup {One(ContentKey, c) : c \in ContentVals}

CandidatesVals == {List(<<>>), Null, Dict(<<>>), Str(<< 120 >>), Num(5), Bool(TRUE)}  \* "x"
                \cup {List(<<c>>) : c \in CandidateVals}

GoodResponse ==
    One(CandidatesKey, List(<<One(ContentKey,
        One(PartsKey, List(<<One(TextKey, Str(Hi))>>)))>>))

ErrorVals ==
    { Str(<< 120 >>), Str(<<>>), Null, Num(5), Num(0 - 12), Bool(FALSE),  \* "x"
      Dict(<<>>), List(<<Null, Str(<< 105, 116, 39, 115 >>)>>),  \* "it's"
      List(<<Str(<< 0, 127, 173, 8203, 241, 917505 >>)>>),  \* "\x00\x7f\xad\u200b\xf1\U000e0001"
      Dict(<< << << 99, 111, 100, 101 >>, Num(400) >>,  \* "code"
              << << 109, 115, 103 >>, Str(<< 98, 10, 34, 39, 160 >>) >> >>) }  \* "msg" | "b\n"'<U+00A0>"

Responses ==
    {Dict(<<>>), Null, Num(5), Bool(TRUE), List(<<>>), List(<<Str(ErrorKey)>>),
     Str(<< 120 >>), Str(<< 97, 110, 32 >> \o ErrorKey)}  \* "x" | "an "
        \cup {One(CandidatesKey, cs) : cs \in CandidatesVals}
        \cup {One(ErrorKey, e) : e \in ErrorVals}
        \cup {Dict(<< <<ErrorKey, Str(<< 120 >>)>>,  \* "x"
                      <<CandidatesKey, Lookup(GoodResponse, CandidatesKey)>> >>)}

(***************************************************************************)
(* extract_answer applied on its own                                       *)
(***************************************************************************)
InitExtract ==
    /\ entry \in Variants
    /\ env_key = [set |-> TRUE, val |-> << 107 >>]  \* "k"
    /\ dotenv = NoFile
    /\ qa_system = TRUE
    /\ pc = "fn"
    /\ req = NoReq
    /\ net = <<>>
    /\ res = NoRes
    /\ pending = EmptyBag
    /\ arg \in Responses
    /\ ret = <<>>
    /\ passes = 0

ExtractAnswer ==
    /\ pc = "fn"
    /\ passes = 0
    /\ \E sigint \in {"none", "extract_head", "extract_try"} :
        /\ req' = [NoReq EXCEPT !.signal = sigint]
        /\ ret' = extract_answer(entry, arg, sigint)
    /\ passes' = 1
    /\ UNCHANGED <<entry, env_key, dotenv, qa_system, pc, net, res, pending, arg>>

NextExtract == ExtractAnswer

SpecExtract == InitExtract /\ [][NextExtract]_vars

\* a failure value is a mapping with an error entry
IsFailureValue(r) == HasKey(r, ErrorKey)

NonEmptyList(x) == x.t = "list" /\ x.xs # <<>>

\* every step of first candidate -> content -> parts -> first part -> text
\* is present and has the expected shape
PathIntact(r) ==
    /\ HasKey(r, CandidatesKey)
    /\ NonEmptyList(Lookup(r, CandidatesKey))
    /\ LET first == Lookup(r, CandidatesKey).xs[1]
       IN  /\ HasKey(first, ContentKey)
           /\ HasKey(Lookup(first, ContentKey), PartsKey)
           /\ NonEmptyList(Lookup(Lookup(first, ContentKey), PartsKey))
           /\ LET part == Lookup(Lookup(first, ContentKey), PartsKey).xs[1]
              IN  /\ HasKey(part, TextKey)
                  /\ Lookup(part, TextKey).t = "str"

\* C3: a response mapping that is not a failure value and whose access path is
\* broken at any step makes extract_answer return one of the two fixed
\* fallback strings, without raising (no signal being delivered meanwhile)
C3_FallbackOnBrokenPath ==
    (passes = 1 /\ req.signal = "none" /\ arg.t = "dict"
        /\ ~IsFailureValue(arg) /\ ~PathIntact(arg)) =>
        /\ ret.kind = "return"
        /\ ret.val \in {WebFallback, ParseFallback}

(***************************************************************************)
(* The pipeline: construct_prompt, query_llm, ask_question                 *)
(***************************************************************************)
PromptHead ==
    << 89, 111, 117, 32, 97, 114, 101, 32, 97, 32, 104, 101, 108, 112,
       102, 117, 108, 32, 65, 73, 32, 97, 115, 115, 105, 115, 116, 97,
       110, 116, 46, 32, 80, 108, 101, 97, 115, 101, 32, 97, 110, 115,
       119, 101, 114, 32, 116, 104, 101, 32, 102, 111, 108, 108, 111,
       119, 105, 110, 103, 32, 113, 117, 101, 115, 116, 105, 111, 110,
       32, 99, 108, 101, 97, 114, 108, 121, 32, 97, 110, 100, 32, 99,
       111, 110, 99, 105, 115, 101, 108, 121, 46, 10, 10, 81, 117, 101,
       115, 116, 105, 111, 110, 58, 32 >>  \* "You are a helpful AI assistant. Please answer the following question clearly and concisely.\n\nQuestion: "

PromptTail ==
    << 10, 10, 65, 110, 115, 119, 101, 114, 58 >>  \* "\n\nAnswer:"

construct_prompt(question) == PromptHead \o question \o PromptTail

TimeoutMsg ==
    << 116, 105, 109, 101, 100, 32, 111, 117, 116 >>  \* "timed out"

BadJsonMsg == << 98, 97, 100, 32, 106, 115, 111, 110 >>  \* "bad json"

\* messages of the RequestException a failed exchange raises
TransportMsgs == {TimeoutMsg}

NoCall == [kind |-> "none", json |-> Null, msg |-> <<>>]

\* the call was sent and requests.post has not returned
Waiting == [kind |-> "waiting", json |-> Null, msg |-> <<>>]

\* requests.post was interrupted by a SIGINT
Interrupted == [kind |-> "interrupt", json |-> Null, msg |-> <<>>]

\* response bodies the remote service answers a call with
NetResponses ==
    { GoodResponse,
      One(CandidatesKey, List(<<One(ContentKey,
            One(PartsKey, List(<<Dict(<<>>)>>)))>>)),
      One(ErrorKey, Str(<< 120 >>)),  \* "x"
      Null }

\* what one requests.post exchange can do: "ok" a parsed body, "fail" a
\* RequestException (network error, timeout, raise_for_status), "other" an
\* exception of another class raised inside the try block (a ValueError of
\* response.json())
NetOutcomes ==
    {[kind |-> "ok", json |-> j, msg |-> <<>>] : j \in NetResponses}
        \cup {[kind |-> "fail", json |-> Null, msg |-> m] : m \in TransportMsgs}
        \cup {[kind |-> "other", json |-> Null, msg |-> BadJsonMsg]}

\* what query_llm has done when control leaves it
QueryResult(sent, trace, result) ==
    [sent |-> sent, trace |-> trace, result |-> result]

PostTrace == <<"construct_prompt", "requests.post">>

KeyboardInterrupt == PyRaise("KeyboardInterrupt", <<>>)

\* query_llm without the except clause: the RequestException propagates
query_llm_uncaught(variant, question, outcome, sigint) ==
    IF sigint = "query_head"
    THEN QueryResult(<<>>, <<>>, KeyboardInterrupt)
    ELSE IF sigint = "construct"
    THEN QueryResult(<<>>, <<"construct_prompt">>, KeyboardInterrupt)
    ELSE IF sigint \in {"post", "post_return"}
    THEN QueryResult(<<construct_prompt(question)>>, PostTrace,
                     KeyboardInterrupt)
    ELSE QueryResult(<<construct_prompt(question)>>, PostTrace,
            CASE outcome.kind = "ok"    -> PyRet(outcome.json)
              [] outcome.kind = "fail"  ->
                    PyRaise("RequestException", outcome.msg)
              [] outcome.kind = "other" -> PyRaise("ValueError", outcome.msg)
              [] OTHER -> [kind |-> "blocked", val |-> <<>>, exc |-> NoExc])

\* query_llm posting a second time after a RequestException
query_llm_retry(variant, question, outcome, sigint) ==
    IF sigint = "query_head"
    THEN QueryResult(<<>>, <<>>, KeyboardInterrupt)
    ELSE IF sigint = "construct"
    THEN QueryResult(<<>>, <<"construct_prompt">>, KeyboardInterrupt)
    ELSE IF sigint \in {"post", "post_return"}
    THEN QueryResult(<<construct_prompt(question)>>, PostTrace,
                     KeyboardInterrupt)
    ELSE QueryResult(
            IF outcome.kind = "fail"
            THEN <<construct_prompt(question), construct_prompt(question)>>
            ELSE <<construct_prompt(question)>>,
            PostTrace,
            CASE outcome.kind = "ok"    -> PyRet(outcome.json)
              [] outcome.kind = "fail"  ->
                    PyRet(One(ErrorKey, Str(outcome.msg)))
              [] outcome.kind = "other" ->
                    IF variant = "web"
                    THEN PyRet(One(ErrorKey, Str(outcome.msg)))
                    ELSE PyRaise("ValueError", outcome.msg)
              [] OTHER -> [kind |-> "blocked", val |-> <<>>, exc |-> NoExc])

\* one POST, wrapped in try/except: the CLI catches RequestException, the
\* web application catches Exception; neither catches the KeyboardInterrupt
\* of a SIGINT, delivered before construct_prompt is called ("query_head"),
\* while the prompt and the payload are built ("construct", nothing is
\* sent), while requests.post waits ("post"), or after requests.post
\* returned or raised ("post_return": the exchange has taken place).  The
\* outcome Waiting stands for a call that has not returned.
query_llm(variant, question, outcome, sigint) ==
    IF sigint = "query_head"
    THEN QueryResult(<<>>, <<>>, KeyboardInterrupt)
    ELSE IF sigint = "construct"
    THEN QueryResult(<<>>, <<"construct_prompt">>, KeyboardInterrupt)
    ELSE IF sigint \in {"post", "post_return"}
    THEN QueryResult(<<construct_prompt(question)>>, PostTrace,
                     KeyboardInterrupt)
    ELSE QueryResult(<<construct_prompt(question)>>, PostTrace,
            CASE outcome.kind = "ok"    -> PyRet(outcome.json)
              [] outcome.kind = "fail"  ->
                    PyRet(One(ErrorKey, Str(outcome.msg)))
              [] outcome.kind = "other" ->
                    IF variant = "web"
                    THEN PyRet(One(ErrorKey, Str(outcome.msg)))
                    ELSE PyRaise("ValueError", outcome.msg)
              [] OTHER -> [kind |-> "blocked", val |-> <<>>, exc |-> NoExc])

\* query_llm was not called
NoResponse == [kind |-> "none", val |-> Null, exc |-> NoExc]

\* ask_question was not reached
NotAsked ==
    [ kind |-> "none", processed |-> <<>>, response |-> NoResponse,
      answer |-> <<>>, exc |-> NoExc, sent |-> <<>>, trace |-> <<>>,
      signal |-> "none" ]

\* ask_question left by a KeyboardInterrupt before query_llm is entered;
\* trace lists the functions entered
AskInterrupted(trace, sigint) ==
    [NotAsked EXCEPT !.kind = "raise",
                     !.exc = [type |-> "KeyboardInterrupt", msg |-> <<>>],
                     !.trace = trace,
                     !.signal = sigint]

\* answer = self.extract_answer(response), q what query_llm did: the call
\* is not reached when query_llm raised, and not made when the SIGINT
\* arrives before it ("ask_mid")
Extracted(variant, q, sigint) ==
    IF q.result.kind # "return" THEN q.result
    ELSE IF sigint = "ask_mid" THEN KeyboardInterrupt
    ELSE extract_answer(variant, q.result.val, sigint)

\* the place the SIGINT was delivered at, "none" when control did not
\* reach the place sigint
Delivered(q, sigint) ==
    IF sigint \in {"query_head", "construct", "post", "post_return"}
    THEN sigint
    ELSE IF q.result.kind # "return" THEN "none"
    ELSE IF sigint \in {"ask_mid", "extract_head"} THEN sigint
    ELSE IF sigint = "extract_try" /\ ReachesTry(q.result.val)
    THEN "extract_try"
    ELSE "none"

\* the rest of ask_question once query_llm did q
AfterQuery(processed, q, a, signal) ==
    [ kind      |-> a.kind,
      processed |-> processed,
      response  |-> q.result,
      answer    |-> a.val,
      exc       |-> a.exc,
      sent      |-> q.sent,
      trace     |-> <<"preprocess_question">> \o q.trace \o
                    (IF q.result.kind = "return" /\ signal # "ask_mid"
                     THEN <<"extract_answer">> ELSE <<>>),
      signal    |-> signal ]

\* the rest of ask_question once preprocess_question returned processed
AfterPreprocess(variant, processed, q, sigint) ==
    AfterQuery(processed, q, Extracted(variant, q, sigint),
               Delivered(q, sigint))

\* sigint names where a SIGINT is delivered during the call; signal of the
\* result is that place when control reached it, "none" otherwise
ask_question(variant, question, outcome, sigint) ==
    IF sigint = "ask_head"
    THEN AskInterrupted(<<>>, sigint)
    ELSE IF sigint = "preprocess"
    THEN AskInterrupted(<<"preprocess_question">>, sigint)
    ELSE IF sigint = "ask_query"
    THEN [AskInterrupted(<<"preprocess_question">>, sigint)
            EXCEPT !.processed = preprocess_question(variant, question)]
    ELSE AfterPreprocess(variant, preprocess_question(variant, question),
            query_llm(variant, preprocess_question(variant, question),
                      outcome, sigint),
            sigint)

(***************************************************************************)
(* Start-up                                                                *)
(***************************************************************************)
EnvKeys ==
    { [set |-> FALSE, val |-> <<>>],
      [set |-> TRUE,  val |-> <<>>],
      [set |-> TRUE,  val |-> << 107 >>] }  \* "k"

DotenvFiles == {NoFile, [set |-> TRUE, val |-> << 100 >>]}  \* "d"

\* load_dotenv(): a variable of the .env file is set unless the environment
\* already has it
load_dotenv(env, file) == IF env.set \/ ~file.set THEN env ELSE file

\* the environment the program reads the key from: the CLI calls
\* load_dotenv() first, the web application does not
StartEnv(variant, env, file) ==
    IF variant = "cli" THEN load_dotenv(env, file) ELSE env

\* os.getenv('GEMINI_API_KEY'): None when unset
getenv(env) == IF env.set THEN Str(env.val) ELSE Null

\* LLMQuestionAnswering(): TRUE when the object is constructed, FALSE when
\* __init__ raises ValueError
Construct(env) == Truthy(getenv(env))

\* the web application keeps None when construction fails and serves anyway;
\* the CLI exits at import time without a key
StartPc(variant, env) ==
    IF variant = "web" THEN "serving"
    ELSE IF Truthy(getenv(env)) /\ Construct(env) THEN "prompt" ELSE "exited"

(***************************************************************************)
(* The web application                                                     *)
(***************************************************************************)
NotConfiguredMsg ==
    << 65, 80, 73, 32, 107, 101, 121, 32, 110, 111, 116, 32, 99, 111,
       110, 102, 105, 103, 117, 114, 101, 100, 46 >>  \* "API key not configured."

EmptyQuestionMsg ==
    << 80, 108, 101, 97, 115, 101, 32, 101, 110, 116, 101, 114, 32, 97,
       32, 113, 117, 101, 115, 116, 105, 111, 110 >>  \* "Please enter a question"

NoJson == [t |-> "nojson"]

\* the message of the AttributeError of x.attr
AttrMsg(x, attr) ==
    << 39 >> \o PyTypeName(x) \o  \* "'"
    << 39, 32, 111, 98, 106, 101, 99, 116, 32, 104, 97, 115, 32, 110,
       111, 32, 97, 116, 116, 114, 105, 98, 117, 116, 101, 32, 39 >>  \* "' object has no attribute '"
    \o attr \o << 39 >>  \* "'"

\* request.get_json(): the parsed body; without a JSON body it raises
\* UnsupportedMediaType (Flask 2.1 and later) or returns None (before)
get_json(body) ==
    IF body = NoJson
    THEN {PyRaise("UnsupportedMediaType", <<>>), PyRet(Null)}
    ELSE {PyRet(body)}

\* kind is "response", or "waiting" while the view function is in requests.post
AskResponse(kind, status, keys, error, question, a) ==
    [ route |-> "ask", kind |-> kind, status |-> status, keys |-> keys,
      error |-> error, original_question |-> question,
      processed_question |-> a.processed, answer |-> a.answer,
      response |-> a.response, exc |-> NoExc, sent |-> a.sent,
      trace |-> a.trace, signal |-> "none" ]

\* the exception leaves the view function
AskEscaped(type, msg) ==
    [ route |-> "ask", kind |-> "raised", status |-> 0, keys |-> {},
      error |-> <<>>, original_question |-> <<>>,
      processed_question |-> <<>>, answer |-> <<>>,
      response |-> NoResponse, exc |-> [type |-> type, msg |-> msg],
      sent |-> <<>>, trace |-> <<>>, signal |-> "none" ]

AnswerKeys ==
    {"original_question", "processed_question", "answer", "model", "timestamp"}

\* POST /ask; sys is qa_system, gj the result of request.get_json(), outcome
\* what requests.post does (Waiting: it has not returned yet)
ask(sys, gj, outcome) ==
    IF ~sys
    THEN AskResponse("response", 500, {"error"}, NotConfiguredMsg, <<>>, NotAsked)
    ELSE IF gj.kind = "raise"
    THEN AskEscaped(gj.exc.type, gj.exc.msg)
    ELSE
    LET data == gj.val
        field == Get(data, QuestionKey, Str(<<>>))
    IN  IF field = Exc
        THEN AskEscaped("AttributeError", AttrMsg(data, << 103, 101, 116 >>))  \* "get"
        ELSE IF field.t # "str"
        THEN AskEscaped("AttributeError",
                        AttrMsg(field, << 115, 116, 114, 105, 112 >>))  \* "strip"
        ELSE
        LET question == Strip(field.s)
        IN  IF question = <<>>
            THEN AskResponse("response", 400, {"error"}, EmptyQuestionMsg,
                             <<>>, NotAsked)
            ELSE
            LET a == ask_question("web", question, outcome, "none")
            IN  IF a.kind = "blocked"
                THEN AskResponse("waiting", 0, {}, <<>>, question, a)
                ELSE IF a.kind = "return"
                THEN AskResponse("response", 200, AnswerKeys, <<>>, question, a)
                ELSE AskResponse("response", 500, {"error"}, a.exc.msg,
                                 question, a)

\* health reporting the key as configured whatever qa_system is
health_alwaysConfigured(sys) ==
    [ route |-> "health", kind |-> "response", status |-> 200,
      keys |-> {"status", "model", "api_configured"},
      api_configured |-> TRUE, sent |-> <<>>, signal |-> "none" ]

\* GET /health
health(sys) ==
    [ route |-> "health", kind |-> "response", status |-> 200,
      keys |-> {"status", "model", "api_configured"},
      api_configured |-> sys, sent |-> <<>>, signal |-> "none" ]

\* GET /
home ==
    [ route |-> "home", kind |-> "response", status |-> 200, sent |-> <<>>,
      signal |-> "none" ]

(***************************************************************************)
(* The interactive loop of the CLI                                         *)
(***************************************************************************)
QuitCommands ==
    { << 113, 117, 105, 116 >>, << 101, 120, 105, 116 >>, << 113 >> }  \* "quit" | "exit" | "q"

LoopResult(event, question, a, signal) ==
    [ route |-> "loop", event |-> event, question |-> question,
      processed_question |-> a.processed, response |-> a.response,
      answer |-> a.answer, exc |-> a.exc, sent |-> a.sent, trace |-> a.trace,
      signal |-> signal ]

\* a SIGINT delivered in the print statement that ends the iteration r:
\* except KeyboardInterrupt catches it and the loop ends, but not when the
\* statement is the print of the except Exception handler; the exception
\* then leaves main() ("crash")
Printed(r, sigint) ==
    IF sigint # "print" THEN r
    ELSE IF r.event = "error"
    THEN [r EXCEPT !.event = "crash", !.signal = "print"]
    ELSE [r EXCEPT !.event = "interrupt", !.signal = "print"]

\* a SIGINT delivered at the jump that takes the loop to its next
\* iteration: the continue of an empty line ("continue"), or the jump at
\* the end of the try statement after an answer or after the except
\* Exception handler ("back_edge").  No handler of main() covers the jump
\* and the KeyboardInterrupt leaves main() ("crash")
Jumped(r, sigint) ==
    IF sigint = "continue" /\ r.event = "empty"
    THEN [r EXCEPT !.event = "crash", !.signal = "continue"]
    ELSE IF sigint = "back_edge" /\ r.event \in {"answer", "error"}
    THEN [r EXCEPT !.event = "crash", !.signal = "back_edge"]
    ELSE r

\* a second SIGINT delivered in the except KeyboardInterrupt handler: the
\* exception leaves main() ("crash")
Handled(r, second) ==
    IF second /\ r.event = "interrupt" THEN [r EXCEPT !.event = "crash"] ELSE r

\* the result of the iteration whose call of ask_question did a
Answered(question, a) ==
    IF a.kind = "return"
    THEN LoopResult("answer", question, a, a.signal)
    ELSE IF a.exc.type = "KeyboardInterrupt"
    THEN LoopResult("interrupt", question, a, a.signal)
    ELSE LoopResult("error", question, a, a.signal)

\* loop_body without the test of the line for emptiness
loop_body_noEmptyCheck(line, outcome, sigint, second) ==
    Handled(
        IF sigint = "main"
        THEN LoopResult("interrupt", Strip(line), AskInterrupted(<<>>, "main"),
                        "main")
        ELSE IF Lower(Strip(line)) \in QuitCommands
        THEN Printed(LoopResult("quit", Strip(line), NotAsked, "none"), sigint)
        ELSE Jumped(Printed(Answered(Strip(line),
                        ask_question("cli", Strip(line), outcome, sigint)),
                     sigint), sigint),
        second)

\* one iteration of the while loop of main() whose input() returned line;
\* sigint names where a SIGINT is delivered during the iteration, second
\* tells that another one is delivered in the except KeyboardInterrupt
\* handler
loop_body(line, outcome, sigint, second) ==
    Handled(
        IF sigint = "main"
        THEN LoopResult("interrupt", Strip(line), AskInterrupted(<<>>, "main"),
                        "main")
        ELSE IF Strip(line) = <<>>
        THEN Jumped(Printed(LoopResult("empty", Strip(line), NotAsked, "none"),
                            sigint), sigint)
        ELSE IF Lower(Strip(line)) \in QuitCommands
        THEN Printed(LoopResult("quit", Strip(line), NotAsked, "none"), sigint)
        ELSE Jumped(Printed(Answered(Strip(line),
                        ask_question("cli", Strip(line), outcome, sigint)),
                     sigint), sigint),
        second)

\* where the loop goes after an iteration
AfterLoop(r) ==
    IF r.event \in {"quit", "interrupt", "crash"} THEN "done" ELSE "prompt"

(***************************************************************************)
(* Bounded inputs of the two programs                                      *)
(***************************************************************************)
LineAlphabet == {81, 32, 64}  \* "Q", " ", "@"

RECURSIVE LinesOfLen(_)
LinesOfLen(n) ==
    IF n = 0 THEN {<<>>}
    ELSE {Append(s, c) : s \in LinesOfLen(n - 1), c \in LineAlphabet}

\* questions posted to /ask
Questions ==
    { <<>>, << 32 >>, << 81 >>, << 64 >>, << 81, 64 >>, << 11 >>,  \* " " | "Q" | "@" | "Q@" | "<U+000B>"
      << 200, 241 >> }  \* "<U+00C8><U+00F1>"

\* lines typed at the prompt
Lines ==
    UNION {LinesOfLen(k) : k \in 0..MaxLineLen}
        \cup { << 81, 64 >>, << 11 >>, << 113, 117, 105, 116 >>, << 81, 85, 73, 84 >>,  \* "Q@" | "<U+000B>" | "quit" | "QUIT"
               << 32, 69, 120, 105, 116, 9 >>,  \* " Exit\t"
               << 113, 117, 105, 116, 115 >>,  \* "quits"
               << 11, 113, 160 >>,  \* "<U+000B>q<U+00A0>"
               << 200, 241 >> }  \* "<U+00C8><U+00F1>"

Bodies ==
    {NoJson, Null, List(<<>>), Dict(<<>>),
     One(QuestionKey, Null), One(QuestionKey, Num(5))}
        \cup {One(QuestionKey, Str(l)) : l \in Questions}

(***************************************************************************)
(* The two programs as one state machine                                   *)
(***************************************************************************)
Init ==
    /\ entry \in Variants
    /\ env_key \in EnvKeys
    /\ dotenv \in (IF entry = "cli" THEN DotenvFiles ELSE {NoFile})
    /\ qa_system = Construct(StartEnv(entry, env_key, dotenv))
    /\ pc = StartPc(entry, StartEnv(entry, env_key, dotenv))
    /\ req = NoReq
    /\ net = NoCall
    /\ res = NoRes
    /\ pending = EmptyBag
    /\ arg = <<>>
    /\ ret = <<>>
    /\ passes = 0

AskReq(body) == [route |-> "ask", signal |-> "none", body |-> body, line |-> <<>>]

\* a POST /ask that is answered without a remote call
AskRespond ==
    /\ entry = "web"
    /\ pc = "serving"
    /\ \E body \in Bodies :
        \E gj \in get_json(body) :
            LET r == ask(qa_system, gj, Waiting)
            IN  /\ r.kind # "waiting"
                /\ req' = AskReq(body)
                /\ res' = r
                /\ net' = NoCall
    /\ UNCHANGED <<entry, env_key, dotenv, qa_system, pc, pending, arg, ret, passes>>

\* a POST /ask reaches requests.post and waits there; the server goes on
\* handling other requests
AskSend ==
    /\ entry = "web"
    /\ pc = "serving"
    /\ BagCardinality(pending) < MaxInFlight
    /\ \E body \in Bodies :
        \E gj \in get_json(body) :
            /\ ask(qa_system, gj, Waiting).kind = "waiting"
            /\ pending' = pending (+) SetToBag({body})
    /\ UNCHANGED <<entry, env_key, dotenv, qa_system, pc, req, net, res, arg, ret, passes>>

\* requests.post of a waiting POST /ask returns or raises, and the view
\* function runs to its end
AskReceive ==
    /\ entry = "web"
    /\ pc = "serving"
    /\ \E body \in BagToSet(pending), outcome \in NetOutcomes :
        /\ req' = AskReq(body)
        /\ res' = ask(qa_system, PyRet(body), outcome)
        /\ net' = outcome
        /\ pending' = pending (-) SetToBag({body})
    /\ UNCHANGED <<entry, env_key, dotenv, qa_system, pc, arg, ret, passes>>

Health ==
    /\ entry = "web"
    /\ pc = "serving"
    /\ req' = [route |-> "health", signal |-> "none", body |-> Null, line |-> <<>>]
    /\ res' = health(qa_system)
    /\ net' = NoCall
    /\ UNCHANGED <<entry, env_key, dotenv, qa_system, pc, pending, arg, ret, passes>>

Home ==
    /\ entry = "web"
    /\ pc = "serving"
    /\ req' = [route |-> "home", signal |-> "none", body |-> Null, line |-> <<>>]
    /\ res' = home
    /\ net' = NoCall
    /\ UNCHANGED <<entry, env_key, dotenv, qa_system, pc, pending, arg, ret, passes>>

\* the state of the exchange an iteration leaves behind
NetAfter(r, outcome) ==
    IF r.sent = <<>> THEN NoCall
    ELSE IF r.signal = "post" THEN Interrupted
    ELSE outcome

CliLine ==
    /\ entry = "cli"
    /\ pc = "prompt"
    /\ \E line \in Lines, outcome \in NetOutcomes, sigint \in SigPoints,
          second \in BOOLEAN :
        /\ req' = [route |-> "input", signal |-> "none",
                   body |-> Null, line |-> line]
        /\ res' = loop_body(line, outcome, sigint, second)
        /\ net' = NetAfter(res', outcome)
        /\ pc' = AfterLoop(res')
    /\ UNCHANGED <<entry, env_key, dotenv, qa_system, pending, arg, ret, passes>>

\* input() raises KeyboardInterrupt
CliInterrupt ==
    /\ entry = "cli"
    /\ pc = "prompt"
    /\ \E second \in BOOLEAN :
        /\ req' = [route |-> "input", signal |-> "interrupt",
                   body |-> Null, line |-> <<>>]
        /\ res' = Handled(LoopResult("interrupt", <<>>, NotAsked, "input"),
                          second)
    /\ net' = NoCall
    /\ pc' = AfterLoop(res')
    /\ UNCHANGED <<entry, env_key, dotenv, qa_system, pending, arg, ret, passes>>

\* input() raises EOFError, which except Exception catches; a SIGINT can
\* arrive in the print of the handler or at the jump back to the loop head
CliEof ==
    /\ entry = "cli"
    /\ pc = "prompt"
    /\ \E sigint \in {"none", "print", "back_edge"} :
        /\ req' = [route |-> "input", signal |-> "eof",
                   body |-> Null, line |-> <<>>]
        /\ res' = Jumped(Printed(LoopResult("error", <<>>, NotAsked, "none"),
                                 sigint), sigint)
    /\ net' = NoCall
    /\ pc' = AfterLoop(res')
    /\ UNCHANGED <<entry, env_key, dotenv, qa_system, pending, arg, ret, passes>>

Next ==
    AskRespond \/ AskSend \/ AskReceive \/ Health \/ Home
        \/ CliLine \/ CliInterrupt \/ CliEof

Spec == Init /\ [][Next]_vars

(***************************************************************************)
(* Properties of the two programs                                          *)
(***************************************************************************)
\* the body of a POST /ask is a JSON object with a string question
HasStringQuestion(b) ==
    /\ b.t = "dict"
    /\ HasKey(b, QuestionKey)
    /\ Lookup(b, QuestionKey).t = "str"

\* the question of the last request as entered, trimmed
RawQuestion ==
    IF req.route = "ask" /\ HasStringQuestion(req.body)
    THEN Strip(Lookup(req.body, QuestionKey).s)
    ELSE IF req.route = "input" THEN Strip(req.line)
    ELSE <<>>

TerminationWords ==
    { << 113, 117, 105, 116 >>, << 101, 120, 105, 116 >>, << 113 >> }  \* "quit" | "exit" | "q"

\* C4: a transport failure of the remote call is returned by query_llm as
\* the failure value {error: message} and never leaves the pipeline as an
\* exception; query_llm is left by an exception only when a SIGINT arrives
\* after the failure, and unless a SIGINT cuts the pipeline short
\* ask_question returns "Error: " followed by the message
C4_TransportFailureBecomesErrorAnswer ==
    net.kind = "fail" =>
        /\ res.exc.type \in {"none", "KeyboardInterrupt"}
        /\ res.response.kind \in {"return", "raise"}
        /\ res.response.kind = "raise" =>
            /\ res.signal = "post_return"
            /\ res.response.exc.type = "KeyboardInterrupt"
        /\ res.response.kind = "return" =>
            res.response.val = One(ErrorKey, Str(net.msg))
        /\ res.signal \in {"none", "print", "back_edge"} =>
            /\ res.response.kind = "return"
            /\ res.answer = ErrorPrefix \o net.msg
            /\ res.exc = NoExc
        /\ res.signal = "none" =>
            /\ res.route = "ask" => (res.kind = "response" /\ res.status = 200)
            /\ res.route = "loop" => res.event = "answer"

C4_Witness ==
    /\ net.kind = "fail"
    /\ net.msg = TimeoutMsg
    /\ res.route = "loop"
    /\ res.signal = "none"
    /\ res.answer = ErrorPrefix \o TimeoutMsg

\* a POST /ask whose question is absent (no JSON body, the body null, an
\* object without the field or with the value null), empty or
\* whitespace-only
EmptyQuestionBody(b) ==
    \/ b = NoJson
    \/ b = Null
    \/ /\ b.t = "dict"
       /\ \/ ~HasKey(b, QuestionKey)
          \/ Lookup(b, QuestionKey) = Null
          \/ /\ Lookup(b, QuestionKey).t = "str"
             /\ Strip(Lookup(b, QuestionKey).s) = <<>>

\* C5: every POST /ask with an empty question yields 400 with an {error}
\* body and no remote call, whether or not the key is configured
C5_EmptyQuestionAlways400 ==
    (req.route = "ask" /\ EmptyQuestionBody(req.body)) =>
        /\ res.kind = "response"
        /\ res.status = 400
        /\ res.keys = {"error"}
        /\ res.sent = <<>>

\* the key is missing when the variable is unset or empty
KeyPresent(env) == env.set /\ env.val # <<>>

\* C6: without a key at start-up every /health reports api_configured false
\* and every POST /ask answers 500 with an {error} body and no remote call;
\* with a key /health reports api_configured true
C6_MissingKeyStaysUnconfigured ==
    entry = "web" =>
        /\ res.route = "health" => res.api_configured = KeyPresent(env_key)
        /\ ~KeyPresent(env_key) => pending = EmptyBag
        /\ (res.route = "ask" /\ ~KeyPresent(env_key)) =>
            /\ res.kind = "response"
            /\ res.status = 500
            /\ res.keys = {"error"}
            /\ res.sent = <<>>

C6_Witness ==
    /\ entry = "web"
    /\ ~KeyPresent(env_key)
    /\ req.route = "ask"
    /\ req.body = One(QuestionKey, Str(<< 81 >>))  \* "Q"
    /\ res.status = 500

\* C7 as stated: the loop has ended exactly when the trimmed, lower-cased
\* line is quit, exit or q or an interrupt signal arrived; an empty line and a
\* termination command make no remote call; every other line, and every
\* exception, leaves the loop at the prompt
C7_LoopTermination ==
    (entry = "cli" /\ req.route = "input") =>
        LET isQuit == req.signal = "none"
                        /\ Lower(Strip(req.line)) \in TerminationWords
            interrupted == req.signal = "interrupt" \/ res.signal # "none"
        IN  /\ pc \in {"prompt", "done"}
            /\ (pc = "done") <=> (isQuit \/ interrupted)
            /\ (req.signal = "none" /\ Strip(req.line) = <<>>) =>
                    res.sent = <<>>
            /\ isQuit => res.sent = <<>>
            /\ res.event = "error" => pc = "prompt"

\* the /ask view function has answered the last request
AskAnswered == req.route = "ask"

\* C8: the /ask view function returns 200 with the five answer fields, or
\* 400 or 500 with {error}, whatever the body; no exception leaves it
C8_AskNeverRaises ==
    AskAnswered =>
        /\ res.kind = "response"
        /\ \/ /\ res.status = 200
              /\ res.keys = {"original_question", "processed_question",
                             "answer", "model", "timestamp"}
           \/ /\ res.status \in {400, 500}
              /\ res.keys = {"error"}

\* the last request carried a question that passed the checks
Accepted ==
    \/ /\ req.route = "ask"
       /\ qa_system
       /\ HasStringQuestion(req.body)
       /\ RawQuestion # <<>>
    \/ /\ req.route = "input"
       /\ req.signal = "none"
       /\ RawQuestion # <<>>
       /\ Lower(RawQuestion) \notin TerminationWords

\* the steps of the pipeline in the order ask_question takes them
PipelineSteps ==
    <<"preprocess_question", "construct_prompt", "requests.post",
      "extract_answer">>

\* a body of the remote service whose first part has no text
EmptyPartResponse ==
    One(CandidatesKey, List(<<One(ContentKey,
        One(PartsKey, List(<<Dict(<<>>)>>)))>>))

\* C9: an accepted question is normalized, wrapped in the template, sent in
\* exactly one call and the answer extracted from that call's result; a
\* SIGINT can cut the sequence short but never reorders or repeats a step.
\* The answer is written out for each body the remote service returns
C9_SingleLinearAttempt ==
    Accepted =>
        /\ \E n \in 0..Len(PipelineSteps) :
            res.trace = SubSeq(PipelineSteps, 1, n)
        /\ Len(res.sent) = (IF Len(res.trace) >= 3 THEN 1 ELSE 0)
        /\ res.signal \in {"none", "print"} => Len(res.sent) = 1
        /\ res.signal \notin {"main", "ask_head", "preprocess"} =>
            res.processed_question = preprocess_question(entry, RawQuestion)
        /\ res.sent # <<>> =>
            res.sent[1] = PromptHead \o res.processed_question \o PromptTail
        /\ (res.response.kind = "return" /\ res.signal # "ask_mid") =>
            res.trace = PipelineSteps
        /\ (net.kind = "ok" /\ res.signal \in {"none", "print", "back_edge"}) =>
            /\ net.json = GoodResponse =>
                (res.exc = NoExc /\ res.answer = << 104, 105 >>)  \* "hi"
            /\ net.json = EmptyPartResponse =>
                (res.exc = NoExc /\ res.answer = <<>>)
            /\ net.json = One(ErrorKey, Str(<< 120 >>)) =>  \* "x"
                (res.exc = NoExc
                 /\ res.answer = << 69, 114, 114, 111, 114, 58, 32, 120 >>)  \* "Error: x"
            /\ net.json = Null =>
                /\ res.answer = <<>>
                /\ res.route = "loop" => res.exc.type = "TypeError"
                /\ res.route = "ask" => res.status = 500
        /\ (net.kind = "fail" /\ res.signal \in {"none", "print", "back_edge"}) =>
            res.answer = << 69, 114, 114, 111, 114, 58, 32 >> \o net.msg  \* "Error: "
        /\ (net.kind = "ok" /\ res.signal # "post_return") =>
            (res.response.kind = "return" /\ res.response.val = net.json)

C9_Witness ==
    /\ Accepted
    /\ net.kind = "fail"
    /\ Len(res.sent) = 1
    /\ RawQuestion = << 81, 64 >>  \* "Q@"
    /\ res.processed_question = << 113 >>  \* "q"

\* C10 as stated: whenever a remote call is issued the normalized question
\* embedded in the prompt is non-empty
C10_NormalizedNonEmptyAtCall ==
    res.sent # <<>> => res.processed_question # <<>>

\* C10 amended: whenever a remote call is issued or waited for, the question
\* as entered, trimmed, is non-empty
C10_RawNonEmptyAtCall ==
    /\ res.sent # <<>> => RawQuestion # <<>>
    /\ \A b \in BagToSet(pending) :
        HasStringQuestion(b) /\ Strip(Lookup(b, QuestionKey).s) # <<>>

C10_Witness ==
    /\ res.sent # <<>>
    /\ RawQuestion = << 64 >>  \* "@"
    /\ res.processed_question = <<>>

====
